---- MODULE Spec2Model ----
(***************************************************************************)
(* BetterSpace: the content-script engine (src/popup.js, second script,    *)
(* lines 153-617), the popup that edits names, dark mode and the palette   *)
(* (src/popup.js lines 1-151, src/unnamed/part_000) and the options page   *)
(* (src/content.js lines 205-337).                                         *)
(*                                                                         *)
(* Strings are sequences of one-character strings, so that trim(), the     *)
(* regular expressions and toLowerCase() are computed, not assumed.        *)
(***************************************************************************)
EXTENDS Integers, Sequences, FiniteSets, TLC

VARIABLES
  dom,            \* the host page: one record per d2l-enrollment-card
  savedNames,     \* engine: in-memory override map, id -> name
  isDarkMode,     \* engine: dark-mode flag
  rootClass,      \* document.documentElement has class bs-dark-mode
  bsCardSheet,    \* engine: the shared CSSStyleSheet, "null" until constructed
  sheetsMade,     \* how many times new CSSStyleSheet() ran
  styleEl,        \* the <style id=bs-dark-mode-style> elements of document.head
  observedRoots,  \* engine: WeakSet of observed scopes
  subscriptions,  \* scope -> number of MutationObserver.observe calls made on it
  debounceTimer,  \* engine: TRUE while a setTimeout(applyAllNames) is pending
  timeouts,       \* number of timeouts set and neither fired nor cleared
  sinceNotify,    \* ms since the timer was last (re)started, saturating
  enginePc,       \* position of the engine's async init()
  namesRead,      \* what storage.get(null) answered to loadSavedNames, if it has
  storage,        \* chrome.storage.local: key -> value
  pendingEdits,   \* popup: id -> trimmed input value
  savePc,         \* popup: position of the running saveNames(), "idle" if none
  allNames,       \* popup: saveNames' local object
  toggle,         \* popup: the running dark-mode 'change' handler, its position
  undelivered,    \* the messages whose delivery to the content script failed
  inbox,          \* messages sent to the content script, not yet handled
  themeInputs,    \* palette form: slot -> raw input text
  themePc,        \* position of the running palette Apply / Save handler
  themeLocal,     \* the handler's local colors object
  themeSent,      \* APPLY_THEME payloads broadcast so far (most recent last)
  last,           \* the last operation handled: its name, argument and response
  envSteps,       \* steps the host page and the user have taken so far
  stats,          \* debounce bookkeeping (notifications, passes), or NoStats
  envStopped      \* the host page and the user have stopped acting

vars == <<dom, savedNames, isDarkMode, rootClass, bsCardSheet, sheetsMade, styleEl,
          observedRoots, subscriptions, debounceTimer, timeouts, sinceNotify, enginePc,
          namesRead, storage, pendingEdits, savePc, allNames, toggle, undelivered, inbox, themeInputs, themePc, themeLocal, themeSent, last,
          envSteps, stats, envStopped>>

engineVars == <<savedNames, isDarkMode, rootClass, bsCardSheet, sheetsMade, styleEl,
                observedRoots, subscriptions, enginePc, namesRead>>
popupVars == <<pendingEdits, savePc, allNames, toggle, undelivered>>
themeVars == <<themeInputs, themePc, themeLocal, themeSent>>

----------------------------------------------------------------------------
(* Bounds *)

\* number of d2l-enrollment-card elements the host page may render
NumCards == 2
\* longest run of hex digits tried as a palette input
MaxHexLen == 7
\* structural-change notifications counted in the debounce bookkeeping
MaxNotifs == 3
\* steps the host page and the user take in one run
MaxIdLen == 16
MaxEnvSteps == 2

(* Program constants *)

\* setTimeout(applyAllNames, 150)
DebounceMs == 150
\* /^#[0-9a-fA-F]{6}$/
HexDigits == 6
\* CARD_GRADIENTS.length
GradientCount == 8

----------------------------------------------------------------------------
(* Strings *)

\* JavaScript null / undefined, kept apart from every string
Null == <<"null">>

WhiteSpace == {" "}

RECURSIVE TrimStart(_)
TrimStart(s) ==
  IF s # <<>> /\ Head(s) \in WhiteSpace THEN TrimStart(Tail(s)) ELSE s

RECURSIVE TrimEnd(_)
TrimEnd(s) ==
  IF s # <<>> /\ s[Len(s)] \in WhiteSpace THEN TrimEnd(SubSeq(s, 1, Len(s) - 1)) ELSE s

\* String.prototype.trim
Trim(s) == TrimEnd(TrimStart(s))

\* JavaScript truthiness of a string-or-undefined value
Truthy(v) == v # Null /\ v # <<>>

Digits == {"0", "1", "2", "3", "4", "5", "6", "7", "8", "9"}

DigitValue(c) ==
  CASE c = "0" -> 0 [] c = "1" -> 1 [] c = "2" -> 2 [] c = "3" -> 3 [] c = "4" -> 4
    [] c = "5" -> 5 [] c = "6" -> 6 [] c = "7" -> 7 [] c = "8" -> 8 [] c = "9" -> 9

\* /^\d+$/.test(k)
IsNumericKey(k) == k # <<>> /\ \A i \in 1..Len(k) : k[i] \in Digits

Min(a, b) == IF a < b THEN a ELSE b

----------------------------------------------------------------------------
(* The host page *)

Cards == 1..NumCards

\* decimal digits of a natural number, as the host prints a course id
RECURSIVE IdDigits(_)
IdDigits(n) ==
  LET d == <<"0", "1", "2", "3", "4", "5", "6", "7", "8", "9">>[(n % 10) + 1]
  IN IF n < 10 THEN <<d>> ELSE Append(IdDigits(n \div 10), d)

CourseNumber(c) == 5 * c + 2

\* href of a course card, "/d2l/home/<id>", and of a card that is no course
HomePrefix == <<"/", "d", "2", "l", "/", "h", "o", "m", "e", "/">>
CourseHref(c) == HomePrefix \o IdDigits(CourseNumber(c))
OtherHref(c) == <<"/", "d", "2", "l", "/", "l", "e", "/">> \o IdDigits(CourseNumber(c))
Hrefs(c) == {CourseHref(c), OtherHref(c)}

Ids == {IdDigits(CourseNumber(c)) : c \in Cards}

\* texts the host renders into d2l-organization-name (empty while loading)
HostTexts == {<<>>, <<" ", "a">>, <<"b">>}
\* names the popup can store: trimmed by its input listener, never empty
OverrideNames == {<<"x">>}
NameMaps == UNION {[S -> OverrideNames] : S \in SUBSET Ids}

\* style sheets the host itself adopted in d2l-card's shadow root
HostSheets == <<"host">>
\* style.getPropertyValue('--bs-card-gradient') of a card never enhanced
NoGradient == <<>>

\* a d2l-enrollment-card the host has not inserted yet.  `wrapped`: the card
\* is the child of a plain div of the course list; `closed`: its shadow root
\* was attached with mode 'closed', so that el.shadowRoot is null
AbsentCard ==
  [present |-> FALSE, wrapped |-> FALSE, shadow |-> FALSE, closed |-> FALSE,
   dCard |-> FALSE, href |-> Null,
   cardShadow |-> FALSE, orgName |-> FALSE, orgShadow |-> FALSE,
   text |-> <<>>, attrText |-> Null, bsOriginal |-> Null,
   gradient |-> NoGradient, sheets |-> HostSheets]

\* Scopes (document.body and the open shadow roots) and elements
Body == <<"body", 0>>
WrapRoot == <<"wrap", 0>>
EnrollRoot(c) == <<"enroll", c>>
OrgRoot(c) == <<"org", c>>
CardRoot(c) == <<"card", c>>

Scopes == {Body, WrapRoot} \cup UNION {{EnrollRoot(c), OrgRoot(c), CardRoot(c)} : c \in Cards}

RECURSIVE PresentCards(_, _)
PresentCards(d, c) ==
  IF c > NumCards THEN <<>>
  ELSE (IF d[c].present /\ d[c].wrapped THEN <<(<<"div", c>>)>> ELSE <<>>)
       \o (IF d[c].present THEN <<(<<"d2l-enrollment-card", c>>)>> ELSE <<>>)
       \o PresentCards(d, c + 1)

\* root.querySelectorAll('*'), in document order
ElementsIn(d, root) ==
  CASE root = Body -> <<(<<"d2l-my-courses", 0>>)>>
    [] root = WrapRoot -> PresentCards(d, 1)
    [] root[1] = "enroll" ->
         (IF d[root[2]].dCard THEN <<(<<"d2l-card", root[2]>>)>> ELSE <<>>)
         \o (IF d[root[2]].orgName THEN <<(<<"d2l-organization-name", root[2]>>)>> ELSE <<>>)
    [] OTHER -> <<>>

\* el.shadowRoot, Null when the element has none
ShadowRootOf(d, el) ==
  CASE el[1] = "d2l-my-courses" -> WrapRoot
    [] el[1] = "d2l-enrollment-card" ->
         IF d[el[2]].shadow /\ ~d[el[2]].closed THEN EnrollRoot(el[2]) ELSE Null
    [] el[1] = "d2l-card" -> IF d[el[2]].cardShadow THEN CardRoot(el[2]) ELSE Null
    [] el[1] = "d2l-organization-name" -> IF d[el[2]].orgShadow THEN OrgRoot(el[2]) ELSE Null
    [] OTHER -> Null

\* the shadow roots of the elements of `root`, in document order
RECURSIVE ShadowRootsOf(_, _, _)
ShadowRootsOf(d, els, i) ==
  IF i > Len(els) THEN <<>>
  ELSE (IF ShadowRootOf(d, els[i]) # Null THEN <<ShadowRootOf(d, els[i])>> ELSE <<>>)
       \o ShadowRootsOf(d, els, i + 1)

\* a walk that does not descend into shadow roots
QueryRootsFlat(d, selector, roots) ==
  LET Matches(el) == el[1] = selector
  IN IF roots = <<>> THEN <<>> ELSE SelectSeq(ElementsIn(d, Head(roots)), Matches)

\* queryShadowAll over a list of roots still to visit: the matches of the
\* first root, then those of the shadow roots nested in it, then the rest
RECURSIVE QueryRoots(_, _, _)
QueryRoots(d, selector, roots) ==
  IF roots = <<>> THEN <<>>
  ELSE LET Matches(el) == el[1] = selector
           els == ElementsIn(d, Head(roots))
       IN SelectSeq(els, Matches)
          \o QueryRoots(d, selector, ShadowRootsOf(d, els, 1) \o Tail(roots))

queryShadowAll(d, selector, root) == QueryRoots(d, selector, <<root>>)

\* position of the first match of /\/d2l\/home\/(\d+)/ in href, 0 if none
FirstHomeMatch(href) ==
  LET n == Len(HomePrefix)
      Hits == {i \in 1..Len(href) :
                 /\ i + n <= Len(href)
                 /\ SubSeq(href, i, i + n - 1) = HomePrefix
                 /\ href[i + n] \in Digits}
  IN IF Hits = {} THEN 0 ELSE CHOOSE i \in Hits : \A j \in Hits : i <= j

RECURSIVE DigitRun(_, _)
DigitRun(s, i) ==
  IF i <= Len(s) /\ s[i] \in Digits THEN <<s[i]>> \o DigitRun(s, i + 1) ELSE <<>>

\* extractCourseId: the digits after /d2l/home/, Null when href does not match
extractCourseId(href) ==
  LET h == IF href = Null THEN <<>> ELSE href
      at == FirstHomeMatch(h)
  IN IF at = 0 THEN Null ELSE DigitRun(h, at + Len(HomePrefix))

----------------------------------------------------------------------------
(* The engine: discovery, content synchronization, enhancement *)

\* obj[key] of a JavaScript object: undefined when the key is absent
Lookup(obj, key) == IF key \in DOMAIN obj THEN obj[key] ELSE Null

NoWrites == [marker |-> 0, text |-> 0, attr |-> 0, style |-> 0, sheet |-> 0]

\* early returns that do not wait for the label companion's own scope
IsTargetUnrendered(rec) ==
  /\ rec.shadow /\ ~rec.closed
  /\ rec.dCard
  /\ extractCourseId(rec.href) # Null

\* the early returns of findCourseElements' forEach body
IsTarget(rec) ==
  /\ rec.shadow /\ ~rec.closed
  /\ rec.dCard
  /\ extractCourseId(rec.href) # Null
  /\ rec.orgName /\ rec.orgShadow

\* the stamp without its test that the marker is unset: the marker follows
\* the visible text
StampAlways(rec) ==
  IF Trim(rec.text) # <<>> THEN [rec EXCEPT !.bsOriginal = Trim(rec.text)] ELSE rec

\* a stamp that stores whatever it reads, the empty string included
StampUnchecked(rec) ==
  IF ~Truthy(rec.bsOriginal) THEN [rec EXCEPT !.bsOriginal = Trim(rec.text)] ELSE rec

\* the stamp of findCourseElements: set the marker when it is unset and the
\* trimmed visible text is not empty
StampOriginal(rec) ==
  IF ~Truthy(rec.bsOriginal) /\ Trim(rec.text) # <<>>
    THEN [rec EXCEPT !.bsOriginal = Trim(rec.text)]
    ELSE rec

RECURSIVE CountChanged(_, _, _)
CountChanged(d, e, c) ==
  IF c > NumCards THEN 0
  ELSE (IF d[c] # e[c] THEN 1 ELSE 0) + CountChanged(d, e, c + 1)

\* the forEach of findCourseElements over the enrollment cards `found` that
\* passed its early returns: the items pushed, the page with the markers stamped
StampFound(d, found, stamped) ==
  [dom |-> stamped,
   items |-> [i \in 1..Len(found) |->
                [id |-> extractCourseId(d[found[i][2]].href), card |-> found[i][2]]],
   markerWrites |-> CountChanged(d, stamped, 1)]

CollectFound(d, found) ==
  StampFound(d, found,
             [c \in Cards |-> IF \E i \in 1..Len(found) : found[i][2] = c
                                THEN StampOriginal(d[c]) ELSE d[c]])

\* findCourseElements: the items found, and the page with the markers stamped
findCourseElements(d) ==
  LET Found(el) == IsTarget(d[el[2]])
  IN CollectFound(d, SelectSeq(queryShadowAll(d, "d2l-enrollment-card", Body), Found))

\* const displayName = customName || original
DisplayName(customName, original) ==
  IF Truthy(customName) THEN customName ELSE original

\* the visible-text write without its equality guard
NeedsTextWriteAlways(text, displayName) == TRUE

\* the equality guard of the visible-text write
NeedsTextWrite(text, displayName) == Trim(text) # displayName

\* an attribute that is never brought up to date
NeedsAttrWriteNever(attrText, displayName) == FALSE

\* the equality guard of the 'text' attribute write
NeedsAttrWrite(attrText, displayName) == attrText # displayName

\* a forEach body that also stores the name it shows in the marker
ApplyNameAndMark(rec, customName) ==
  LET displayName == DisplayName(customName, rec.bsOriginal)
  IN IF ~Truthy(displayName) THEN rec
     ELSE [rec EXCEPT !.text = displayName, !.attrText = displayName,
                      !.bsOriginal = displayName]

\* the forEach body of applyAllNames on one item
ApplyNameToItem(rec, customName) ==
  LET displayName == DisplayName(customName, rec.bsOriginal)
  IN IF ~Truthy(displayName) THEN rec
     ELSE [rec EXCEPT
             !.text = IF NeedsTextWrite(rec.text, displayName) THEN displayName ELSE @,
             !.attrText = IF NeedsAttrWrite(rec.attrText, displayName) THEN displayName ELSE @]

TextWritten(rec, customName) ==
  LET displayName == DisplayName(customName, rec.bsOriginal)
  IN Truthy(displayName) /\ NeedsTextWrite(rec.text, displayName)

AttrWritten(rec, customName) ==
  LET displayName == DisplayName(customName, rec.bsOriginal)
  IN Truthy(displayName) /\ NeedsAttrWrite(rec.attrText, displayName)

\* digit characters of a list of digit values
AsDigits(ns) == [i \in 1..Len(ns) |-> <<"0", "1", "2", "3", "4", "5", "6", "7", "8", "9">>[ns[i] + 1]]

\* the numeric value of a run of digits, modulo m (acc is the value so far)
RECURSIVE DigitsMod(_, _, _)
DigitsMod(s, m, acc) ==
  IF s = <<>> THEN acc ELSE DigitsMod(Tail(s), m, (10 * acc + DigitValue(Head(s))) % m)

RECURSIVE StripZeros(_)
StripZeros(s) == IF Len(s) > 1 /\ Head(s) = "0" THEN StripZeros(Tail(s)) ELSE s

\* s >= t for digit runs of equal length
RECURSIVE DigitsGE(_, _)
DigitsGE(s, t) ==
  IF s = <<>> THEN TRUE
  ELSE IF Head(s) # Head(t) THEN DigitValue(Head(s)) > DigitValue(Head(t))
  ELSE DigitsGE(Tail(s), Tail(t))

\* 2^53: from here on a Number holds only every second integer
TwoTo53 == AsDigits(<<9, 0, 0, 7, 1, 9, 9, 2, 5, 4, 7, 4, 0, 9, 9, 2>>)

\* parseInt(s, 10) minus the numeric value of s, for s below 2^54: the value
\* is rounded to the nearest Number, a tie going to the even significand
ParseIntError(s) ==
  LET z == StripZeros(s)
      big == Len(z) > Len(TwoTo53) \/ (Len(z) = Len(TwoTo53) /\ DigitsGE(z, TwoTo53))
      r == DigitsMod(z, 4, 0)
  IN IF ~big THEN 0 ELSE IF r = 1 THEN -1 ELSE IF r = 3 THEN 1 ELSE 0

\* parseInt(s, 10) % m of a run of digits
ParseIntMod(s, m) == (DigitsMod(s, m, 0) + ParseIntError(s) + m) % m

\* a lookup that reads the run of digits as an exact integer
ExactGradient(courseId) == DigitsMod(courseId, GradientCount, 0)

\* getCardGradient: index into CARD_GRADIENTS
getCardGradient(courseId) == ParseIntMod(courseId, GradientCount)

TheSheet == "bsCardSheet"

\* an enhancement that adopts the sheet without looking for it in the list
EnhanceItemAppend(rec, id, sheet) ==
  [rec EXCEPT
     !.gradient = <<getCardGradient(id)>>,
     !.sheets = IF rec.cardShadow THEN Append(@, sheet) ELSE @]

\* the forEach body of applyCardEnhancements on one item
EnhanceItem(rec, id, sheet) ==
  [rec EXCEPT
     !.gradient = <<getCardGradient(id)>>,
     !.sheets = IF rec.cardShadow /\ \A i \in 1..Len(@) : @[i] # sheet
                  THEN Append(@, sheet) ELSE @]

\* removeCardEnhancements that removes the gradient and leaves the sheet adopted
UnenhanceKeepsSheet(rec, sheet) == [rec EXCEPT !.gradient = NoGradient]

\* the forEach body of removeCardEnhancements on one item
UnenhanceItem(rec, sheet) ==
  LET Other(x) == x # sheet
  IN [rec EXCEPT
        !.gradient = NoGradient,
        !.sheets = IF rec.cardShadow /\ sheet # "null" THEN SelectSeq(@, Other) ELSE @]

ItemCards(items) == {items[i].card : i \in 1..Len(items)}

ItemId(items, c) == (CHOOSE i \in 1..Len(items) : items[i].card = c)

\* applyCardEnhancements(elements) on page d
applyCardEnhancements(d, items) ==
  [c \in Cards |-> IF c \in ItemCards(items)
                     THEN EnhanceItem(d[c], items[ItemId(items, c)].id, TheSheet)
                     ELSE d[c]]

\* removeCardEnhancements(elements) on page d
removeCardEnhancements(d, items, sheet) ==
  [c \in Cards |-> IF c \in ItemCards(items) THEN UnenhanceItem(d[c], sheet) ELSE d[c]]

RECURSIVE CountIf(_, _, _)
CountIf(S, P(_), c) ==
  IF c > NumCards THEN 0
  ELSE (IF c \in S /\ P(c) THEN 1 ELSE 0) + CountIf(S, P, c + 1)

\* savedNames[id] of the item of card c
CustomName(items, names, c) == Lookup(names, items[ItemId(items, c)].id)

\* a loop that stops after its first item
ApplyNamesFirstOnly(d, items, names) ==
  [c \in Cards |-> IF items # <<>> /\ c = items[1].card
                     THEN ApplyNameToItem(d[c], CustomName(items, names, c))
                     ELSE d[c]]

\* the elements.forEach of applyAllNames: the page with the names applied
ApplyNames(d, items, names) ==
  [c \in Cards |-> IF c \in ItemCards(items)
                     THEN ApplyNameToItem(d[c], CustomName(items, names, c))
                     ELSE d[c]]

\* the last statement of applyAllNames
EnhanceIfDark(named, items, dark) ==
  IF dark THEN applyCardEnhancements(named, items) ELSE named

\* the cards whose visible text / 'text' attribute the forEach assigns
TextTargets(d, items, names) ==
  {c \in ItemCards(items) : TextWritten(d[c], CustomName(items, names, c))}

AttrTargets(d, items, names) ==
  {c \in ItemCards(items) : AttrWritten(d[c], CustomName(items, names, c))}

\* the writes of a pass that turned page `named` into `final` after assigning
\* the texts of `texts` and the attributes of `attrs`
PassWrites(named, final, items, markerWrites, texts, attrs, dark) ==
  LET SheetW(c) == final[c].sheets # named[c].sheets
  IN [marker |-> markerWrites,
      text |-> Cardinality(texts),
      attr |-> Cardinality(attrs),
      style |-> IF dark THEN Len(items) ELSE 0,
      sheet |-> CountIf(Cards, SheetW, 1)]

PassResult(named, final, items, markerWrites, texts, attrs, dark) ==
  [dom |-> final,
   writes |-> PassWrites(named, final, items, markerWrites, texts, attrs, dark),
   changed |-> {OrgRoot(c) : c \in texts},
   madeSheet |-> dark]

ApplyToFound(found, names, dark) ==
  LET Finish(named) ==
        PassResult(named, EnhanceIfDark(named, found.items, dark), found.items,
                   found.markerWrites,
                   TextTargets(found.dom, found.items, names),
                   AttrTargets(found.dom, found.items, names), dark)
  IN Finish(ApplyNames(found.dom, found.items, names))

\* applyAllNames: the page after the pass, the writes it made, and the scopes
\* whose child list it changed
applyAllNames(d, names, dark) == ApplyToFound(findCourseElements(d), names, dark)

\* savedNames[id] || ''
SavedNameOrEmpty(names, id) ==
  IF Truthy(Lookup(names, id)) THEN Lookup(names, id) ELSE <<>>

\* the .filter(...).map(...) of buildCourseList over the items `kept`
CourseEntries(d, kept, names) ==
  [i \in 1..Len(kept) |->
     [id |-> kept[i].id,
      originalName |-> d[kept[i].card].bsOriginal,
      savedName |-> SavedNameOrEmpty(names, kept[i].id)]]

\* buildCourseList without its filter on the marker
CourseListUnfiltered(found, names) ==
  [dom |-> found.dom, courses |-> CourseEntries(found.dom, found.items, names)]

\* the items whose marker is set, mapped to response entries
CourseList(found, names) ==
  LET Loaded(it) == Truthy(found.dom[it.card].bsOriginal)
  IN [dom |-> found.dom,
      courses |-> CourseEntries(found.dom, SelectSeq(found.items, Loaded), names)]

\* buildCourseList: the response entries, and the page with the markers stamped
buildCourseList(d, names) == CourseList(findCourseElements(d), names)

----------------------------------------------------------------------------
(* The change watcher *)

\* the guard without its test: every encounter counts as the first
NeverObserved(observed, root) == FALSE

\* if (observedRoots.has(root)) return;
IsObserved(observed, root) == root \in observed

\* observeRoot without its scan of the root's descendants
ObserveRootsShallow(d, observed, roots) ==
  observed \cup {roots[i] : i \in 1..Len(roots)}

\* observeRoot over a list of roots still to visit: a root already observed
\* is skipped, a new one is added and the shadow roots nested in it follow
RECURSIVE ObserveRoots(_, _, _)
ObserveRoots(d, observed, roots) ==
  IF roots = <<>> THEN observed
  ELSE IF IsObserved(observed, Head(roots)) THEN ObserveRoots(d, observed, Tail(roots))
  ELSE ObserveRoots(d, observed \cup {Head(roots)},
                    ShadowRootsOf(d, ElementsIn(d, Head(roots)), 1) \o Tail(roots))

\* the same walk, counting the new MutationObserver(...).observe(root) calls
RECURSIVE SubscribeRoots(_, _, _, _)
SubscribeRoots(d, observed, subs, roots) ==
  IF roots = <<>> THEN subs
  ELSE IF IsObserved(observed, Head(roots))
    THEN SubscribeRoots(d, observed, subs, Tail(roots))
  ELSE SubscribeRoots(d, observed \cup {Head(roots)},
                      [subs EXCEPT ![Head(roots)] = @ + 1],
                      ShadowRootsOf(d, ElementsIn(d, Head(roots)), 1) \o Tail(roots))

\* observeRoot(root): the observed set afterwards
observeRoot(d, observed, root) == ObserveRoots(d, observed, <<root>>)

\* a callback that observes the added roots only and forgets the others
ObserveAddedOnly(d, observed, added) ==
  ObserveRoots(d, {}, ShadowRootsOf(d, added, 1))

\* the MutationObserver callback's loop over the added element nodes
ObserveAdded(d, observed, added) ==
  ObserveRoots(d, observed, ShadowRootsOf(d, added, 1))

\* the subscriptions made by that loop
SubscribeAdded(d, observed, subs, added) ==
  SubscribeRoots(d, observed, subs, ShadowRootsOf(d, added, 1))

\* the scopes among `changed` whose observer is called back
Notified(observed, changed) == changed \cap observed

\* the granularity of the clock: half the debounce delay
TickMs == DebounceMs \div 2

NoStats == [on |-> FALSE, notifs |-> 0, passes |-> 0, close |-> TRUE, far |-> TRUE]

\* bookkeeping of k callbacks arriving `gap` ms after the previous notification
StatsNotify(st, k, gap) ==
  IF ~st.on \/ k = 0 THEN st
  ELSE [st EXCEPT !.notifs = @ + k,
                  !.close = @ /\ (st.notifs = 0 \/ gap < DebounceMs),
                  !.far = @ /\ (st.notifs = 0 \/ gap > DebounceMs) /\ k = 1]

StatsPass(st) == IF st.on THEN [st EXCEPT !.passes = @ + 1] ELSE st

\* the clock saturates one tick past the debounce delay
ClockCap == DebounceMs + TickMs

\* a scheduleApply that leaves a pending timer running instead of restarting it
scheduleApplyNoRestart(timer, clock, k) ==
  [timer |-> timer \/ k > 0, clock |-> IF k > 0 /\ ~timer THEN 0 ELSE clock]

\* setTimeout without clearTimeout: every call adds a timeout
PendingAfterNoClear(n, timer, k) == n + k

\* scheduleApply called by k > 0 callbacks: clearTimeout, setTimeout
scheduleApply(timer, clock, k) ==
  [timer |-> timer \/ k > 0, clock |-> IF k > 0 THEN 0 ELSE clock]

\* the timeouts pending after k calls of scheduleApply, n pending before them;
\* `timer` tells whether the timeout debounceTimer names is among the n:
\* clearTimeout(debounceTimer) removes it, setTimeout adds one
RECURSIVE PendingAfter(_, _, _)
PendingAfter(n, timer, k) ==
  IF k = 0 THEN n
  ELSE PendingAfter((IF timer THEN n - 1 ELSE n) + 1, TRUE, k - 1)

\* the timeouts still pending when a task ends that left `timer`: the task
\* that found debounceTimer pending and leaves it spent is its own callback
PendingNow(timer) == IF debounceTimer /\ ~timer THEN timeouts - 1 ELSE timeouts

\* The microtask that follows a task which changed the child lists of the
\* scopes `changed` and added the element nodes `added` to them: every
\* observer concerned is called back once; each attaches to the added shadow
\* roots and calls scheduleApply.  `timer` is TRUE when the task itself left a
\* timer pending.
Callbacks(d, observed, subs, changed, added, timer, st) ==
  \E k \in {Cardinality(Notified(observed, changed))} :
     /\ observedRoots' = IF k > 0 THEN ObserveAdded(d, observed, added) ELSE observed
     /\ subscriptions' = IF k > 0 THEN SubscribeAdded(d, observed, subs, added) ELSE subs
     /\ timeouts' = PendingAfter(PendingNow(timer), timer, k)
     /\ debounceTimer' = scheduleApply(timer, sinceNotify, k).timer
     /\ sinceNotify' = scheduleApply(timer, sinceNotify, k).clock
     /\ stats' = StatsNotify(st, k, sinceNotify)

\* the bookkeeping leaves room for k more notifications
Room(k) == stats.on => stats.notifs + k <= MaxNotifs


----------------------------------------------------------------------------
(* Host page and user *)

Acting == ~envStopped

\* the host page or the user may take one more step
MayAct == Acting /\ envSteps < MaxEnvSteps

NoResponse == [kind |-> "none", courses |-> <<>>]
OkResponse == [kind |-> "ok", courses |-> <<>>]

Did(op) == [op |-> op, arg |-> Null, response |-> NoResponse]

\* The host inserts a d2l-enrollment-card into the course list; it may or may
\* not have rendered its own shadow tree by the time the observers run.
HostInsert(c, rendered, h) ==
  /\ MayAct /\ Room(1)
  /\ ~dom[c].present
  /\ dom' = [dom EXCEPT ![c] =
               [@ EXCEPT !.present = TRUE, !.shadow = rendered, !.dCard = rendered,
                         !.orgName = rendered, !.href = IF rendered THEN h ELSE Null]]
  /\ Callbacks(dom', observedRoots, subscriptions, {WrapRoot}, <<(<<"d2l-enrollment-card", c>>)>>,
               debounceTimer, stats)
  /\ last' = Did("host") /\ envSteps' = envSteps + 1
  /\ UNCHANGED <<savedNames, isDarkMode, rootClass, bsCardSheet, sheetsMade, styleEl,
                 enginePc, namesRead, storage, popupVars, inbox, themeVars, envStopped>>

\* An inserted card renders its shadow tree (attachShadow, then d2l-card and
\* d2l-organization-name inside the new root, which nobody observes yet).
HostRender(c, h) ==
  /\ MayAct
  /\ dom[c].present /\ ~dom[c].shadow
  /\ dom' = [dom EXCEPT ![c] =
               [@ EXCEPT !.shadow = TRUE, !.dCard = TRUE, !.orgName = TRUE, !.href = h]]
  /\ last' = Did("host") /\ envSteps' = envSteps + 1
  /\ UNCHANGED <<engineVars, debounceTimer, timeouts, sinceNotify, storage, popupVars, inbox,
                 themeVars, stats, envStopped>>

\* d2l-organization-name or d2l-card upgrades: attachShadow, no child-list record
HostUpgrade(c, which) ==
  /\ MayAct
  /\ dom[c].shadow
  /\ \/ which = "org" /\ ~dom[c].orgShadow
        /\ dom' = [dom EXCEPT ![c] = [@ EXCEPT !.orgShadow = TRUE]]
     \/ which = "card" /\ ~dom[c].cardShadow
        /\ dom' = [dom EXCEPT ![c] = [@ EXCEPT !.cardShadow = TRUE]]
  /\ last' = Did("host") /\ envSteps' = envSteps + 1
  /\ UNCHANGED <<engineVars, debounceTimer, timeouts, sinceNotify, storage, popupVars, inbox,
                 themeVars, stats, envStopped>>

\* The host (re)writes the visible label inside d2l-organization-name's root.
HostSetText(c, t) ==
  /\ MayAct /\ Room(1)
  /\ dom[c].orgShadow /\ dom[c].text # t
  /\ dom' = [dom EXCEPT ![c] = [@ EXCEPT !.text = t]]
  /\ Callbacks(dom', observedRoots, subscriptions, {OrgRoot(c)}, <<>>, debounceTimer, stats)
  /\ last' = Did("host") /\ envSteps' = envSteps + 1
  /\ UNCHANGED <<savedNames, isDarkMode, rootClass, bsCardSheet, sheetsMade, styleEl,
                 enginePc, namesRead, storage, popupVars, inbox, themeVars, envStopped>>

\* The host page and the user stop acting.
StopEnv ==
  /\ Acting
  /\ envStopped' = TRUE
  /\ UNCHANGED <<dom, engineVars, debounceTimer, timeouts, sinceNotify, storage, popupVars, inbox,
                 themeVars, last, envSteps, stats>>

\* dt ms pass; a due timer fires before the clock moves on.
Tick(dt) ==
  /\ ~(debounceTimer /\ sinceNotify >= DebounceMs)
  /\ sinceNotify < ClockCap
  /\ sinceNotify' = Min(sinceNotify + dt, ClockCap)
  /\ UNCHANGED <<dom, engineVars, debounceTimer, timeouts, storage, popupVars, inbox, themeVars,
                 last, envSteps, stats, envStopped>>

----------------------------------------------------------------------------
(* chrome.storage.local *)

DarkKey == <<"darkMode">>
ThemeKey == <<"themeColors">>

EmptyMap == [k \in {} |-> <<>>]

\* chrome.storage.local.set(items): the given keys are written, the others kept
StorageSet(store, items) ==
  [k \in DOMAIN store \cup DOMAIN items |->
     IF k \in DOMAIN items THEN items[k] ELSE store[k]]

\* Object.fromEntries(Object.entries(obj).filter(([k]) => /^\d+$/.test(k)))
NumericEntries(obj) ==
  [k \in {x \in DOMAIN obj : IsNumericKey(x)} |-> obj[k]]

\* !!stored.darkMode
StoredDark(obj) == DarkKey \in DOMAIN obj /\ obj[DarkKey] = TRUE

\* stored.themeColors || {}
StoredTheme(obj) == IF ThemeKey \in DOMAIN obj THEN obj[ThemeKey] ELSE EmptyMap

----------------------------------------------------------------------------
(* The palette *)

GROUPS == <<"background", "surface", "border", "accent">>
Slots == {GROUPS[i] : i \in 1..Len(GROUPS)}

Hx(a, b, c, d, e, f) == <<"#", a, b, c, d, e, f>>

DEFAULT_THEME ==
  [background |-> Hx("1", "2", "1", "2", "1", "2"),
   surface |-> Hx("1", "e", "1", "e", "1", "e"),
   border |-> Hx("2", "d", "2", "d", "2", "d"),
   accent |-> Hx("4", "d", "9", "d", "e", "0")]

\* the palette buildDarkModeCSS renders: { ...DEFAULT_THEME, ...colors }
buildDarkModeCSS(colors) ==
  [k \in Slots |-> IF k \in DOMAIN colors THEN colors[k] ELSE DEFAULT_THEME[k]]

\* an update that patches the slots it is given into the present content
injectDarkModeStylesPatching(els, colors) ==
  IF els = <<>> THEN <<buildDarkModeCSS(colors)>>
  ELSE [els EXCEPT ![1] = [k \in Slots |-> IF k \in DOMAIN colors THEN colors[k] ELSE @[k]]]

\* injectDarkModeStyles: the style elements with the engine's id afterwards
injectDarkModeStyles(els, colors) ==
  IF els = <<>> THEN <<buildDarkModeCSS(colors)>>
  ELSE [els EXCEPT ![1] = buildDarkModeCSS(colors)]

LowerHex == {"a", "b", "c", "d", "e", "f"}
UpperHex == {"A", "B", "C", "D", "E", "F"}

\* [0-9a-fA-F]
IsHexDigit(ch) == ch \in Digits \cup LowerHex \cup UpperHex

\* toLowerCase() of one character of a string that matched HEX_RE
LowerChar(ch) ==
  CASE ch = "A" -> "a" [] ch = "B" -> "b" [] ch = "C" -> "c"
    [] ch = "D" -> "d" [] ch = "E" -> "e" [] ch = "F" -> "f" [] OTHER -> ch

\* String.prototype.toLowerCase
ToLowerCase(s) == [i \in 1..Len(s) |-> LowerChar(s[i])]

\* /^[0-9a-fA-F]{6}$/.test(val)
IsBareHex(val) == Len(val) = HexDigits /\ \A i \in 1..Len(val) : IsHexDigit(val[i])

\* HEX_RE.test(val): /^#[0-9a-fA-F]{6}$/
IsHexColor(val) ==
  /\ Len(val) = HexDigits + 1
  /\ val[1] = "#"
  /\ \A i \in 2..Len(val) : IsHexDigit(val[i])

\* the two tests of normalizeHex on the trimmed value
NormalizeTrimmed(val) ==
  IF IsBareHex(val) THEN <<"#">> \o val
  ELSE IF IsHexColor(val) THEN ToLowerCase(val)
  ELSE Null

\* normalizeHex(raw): the color, or Null
normalizeHex(raw) == NormalizeTrimmed(Trim(raw))

----------------------------------------------------------------------------
(* Engine: passes, commands, init *)

\* getBsCardSheet(): bsCardSheet afterwards
getBsCardSheet(sheet) == IF sheet = "null" THEN TheSheet ELSE sheet

\* applyAllNames() run as one task with map `names`, then the observers'
\* microtask.  `timer` tells whether a timer is pending once the task ends.
\* r is what applyAllNames returned.
PassEffects(r, observed, subs, timer, st) ==
  /\ Room(Cardinality(Notified(observed, r.changed)))
  /\ dom' = r.dom
  /\ bsCardSheet' = IF r.madeSheet THEN getBsCardSheet(bsCardSheet) ELSE bsCardSheet
  /\ sheetsMade' = IF r.madeSheet /\ bsCardSheet = "null" THEN sheetsMade + 1
                                                          ELSE sheetsMade
  /\ Callbacks(r.dom, observed, subs, r.changed, <<>>, timer, st)

RunPass(names, observed, subs, timer, st) ==
  PassEffects(applyAllNames(dom, names, isDarkMode), observed, subs, timer, st)

\* a timer set without its delay: it may fire as soon as it is pending
TimerFireNoDelay ==
  /\ debounceTimer
  /\ RunPass(savedNames, observedRoots, subscriptions, FALSE, StatsPass(stats))
  /\ last' = Did("timer")
  /\ UNCHANGED <<savedNames, isDarkMode, rootClass, styleEl, enginePc, namesRead, storage,
                 popupVars, inbox, themeVars, envSteps, envStopped>>

\* the debounce timer fires: setTimeout(applyAllNames, 150)
TimerFire ==
  /\ debounceTimer /\ sinceNotify >= DebounceMs
  /\ RunPass(savedNames, observedRoots, subscriptions, FALSE, StatsPass(stats))
  /\ last' = Did("timer")
  /\ UNCHANGED <<savedNames, isDarkMode, rootClass, styleEl, enginePc, namesRead, storage,
                 popupVars, inbox, themeVars, envSteps, envStopped>>

\* message.type === 'GET_COURSES'
OnGetCourses ==
  \E r \in {buildCourseList(dom, savedNames)} :
     /\ dom' = r.dom
     /\ last' = [Did("GET_COURSES") EXCEPT
                   !.response = [kind |-> "courses", courses |-> r.courses]]
     /\ UNCHANGED <<engineVars, debounceTimer, timeouts, sinceNotify, storage, popupVars,
                    themeVars, envSteps, stats, envStopped>>

\* APPLY_NAMES merging the message's map into savedNames instead of replacing it
OnApplyNamesMerging(names) ==
  /\ savedNames' = [k \in DOMAIN savedNames \cup DOMAIN names |->
                      IF k \in DOMAIN names THEN names[k] ELSE savedNames[k]]
  /\ RunPass(savedNames', observedRoots, subscriptions, debounceTimer, stats)
  /\ last' = [op |-> "APPLY_NAMES", arg |-> names, response |-> OkResponse]
  /\ UNCHANGED <<isDarkMode, rootClass, styleEl, enginePc, namesRead, storage, popupVars,
                 themeVars, envSteps, envStopped>>

\* message.type === 'APPLY_NAMES'
OnApplyNames(names) ==
  /\ savedNames' = names
  /\ RunPass(names, observedRoots, subscriptions, debounceTimer, stats)
  /\ last' = [op |-> "APPLY_NAMES", arg |-> names, response |-> OkResponse]
  /\ UNCHANGED <<isDarkMode, rootClass, styleEl, enginePc, namesRead, storage, popupVars,
                 themeVars, envSteps, envStopped>>

\* applyDarkMode(enabled): the page afterwards
applyDarkMode(d, enabled, sheet) ==
  LET Enhance(found) ==
        IF enabled THEN applyCardEnhancements(found.dom, found.items)
                   ELSE removeCardEnhancements(found.dom, found.items, sheet)
  IN Enhance(findCourseElements(d))

\* applyDarkMode(enabled) as a step of the engine
DarkModeStep(enabled) ==
  /\ isDarkMode' = enabled
  /\ rootClass' = enabled
  /\ dom' = applyDarkMode(dom, enabled, bsCardSheet)
  /\ bsCardSheet' = IF enabled THEN getBsCardSheet(bsCardSheet) ELSE bsCardSheet
  /\ sheetsMade' = IF enabled /\ bsCardSheet = "null" THEN sheetsMade + 1 ELSE sheetsMade

\* message.type === 'SET_DARK_MODE'
OnSetDarkMode(enabled) ==
  /\ DarkModeStep(enabled)
  /\ last' = [op |-> "SET_DARK_MODE", arg |-> <<enabled>>, response |-> OkResponse]
  /\ UNCHANGED <<savedNames, styleEl, observedRoots, subscriptions, enginePc, namesRead, debounceTimer, timeouts,
                 sinceNotify, storage, popupVars, themeVars, envSteps, stats, envStopped>>

\* message.type === 'APPLY_THEME'
OnApplyTheme(colors) ==
  /\ styleEl' = injectDarkModeStyles(styleEl, colors)
  /\ last' = [op |-> "APPLY_THEME", arg |-> colors, response |-> OkResponse]
  /\ UNCHANGED <<dom, savedNames, isDarkMode, rootClass, bsCardSheet, sheetsMade,
                 observedRoots, subscriptions, enginePc, namesRead, debounceTimer, timeouts, sinceNotify, storage,
                 popupVars, themeVars, envSteps, stats, envStopped>>

\* loadSavedNames' storage.get(null) has not answered yet
NoAnswer == [got |-> FALSE, value |-> EmptyMap]

\* what `result` is when loadSavedNames resumes: the answer if the store has
\* given it, else the store as it is at that moment
NamesAnswer == IF namesRead.got THEN namesRead.value ELSE storage

\* init() resumes after its first await: injectDarkModeStyles, applyDarkMode,
\* then loadSavedNames() issues its read.
InitDark ==
  /\ enginePc = "getDark"
  /\ styleEl' = injectDarkModeStyles(styleEl, StoredTheme(storage))
  /\ DarkModeStep(StoredDark(storage))
  /\ enginePc' = "getNames"
  /\ namesRead' = NoAnswer
  /\ last' = Did("initDark")
  /\ UNCHANGED <<savedNames, observedRoots, subscriptions, debounceTimer, timeouts, sinceNotify, storage,
                 popupVars, inbox, themeVars, envSteps, stats, envStopped>>

\* init() resumes inside loadSavedNames: savedNames is assigned, then
\* observeRoot(document.body) and applyAllNames().
InitNames ==
  /\ enginePc = "getNames"
  /\ savedNames' = NumericEntries(NamesAnswer)
  /\ namesRead' = NoAnswer
  /\ RunPass(savedNames', observeRoot(dom, observedRoots, Body),
             SubscribeRoots(dom, observedRoots, subscriptions, <<Body>>),
             debounceTimer, stats)
  /\ enginePc' = "done"
  /\ last' = Did("initNames")
  /\ UNCHANGED <<isDarkMode, rootClass, styleEl, storage, popupVars, inbox,
                 themeVars, envSteps, envStopped>>

\* chrome.storage.local answers the get(null) of loadSavedNames; init() resumes
\* with this answer in a later task
StorageAnswers ==
  /\ enginePc = "getNames" /\ ~namesRead.got
  /\ namesRead' = [got |-> TRUE, value |-> storage]
  /\ UNCHANGED <<dom, savedNames, isDarkMode, rootClass, bsCardSheet, sheetsMade, styleEl,
                 observedRoots, subscriptions, enginePc, debounceTimer, timeouts,
                 sinceNotify, storage, popupVars, inbox, themeVars, last, envSteps, stats,
                 envStopped>>

\* a message of the popup or the options page reaches the content script
DeliverApplyNames ==
  /\ inbox # <<>> /\ Head(inbox).type = "APPLY_NAMES"
  /\ enginePc # "unloaded"
  /\ OnApplyNames(Head(inbox).payload)
  /\ inbox' = Tail(inbox)

DeliverApplyTheme ==
  /\ inbox # <<>> /\ Head(inbox).type = "APPLY_THEME"
  /\ OnApplyTheme(Head(inbox).payload)
  /\ inbox' = Tail(inbox)

----------------------------------------------------------------------------
(* The popup: course names *)

\* no dark-mode 'change' handler is running
ToggleIdle == [pc |-> "idle", enabled |-> FALSE]

\* what the user may type into a name input
TypedNames == {<<" ">>, <<"x">>, <<"y", " ">>}

\* the 'input' listener of a name input: pendingEdits[id] = input.value.trim()
UserInput(id, raw) ==
  /\ MayAct
  /\ pendingEdits' = [k \in DOMAIN pendingEdits \cup {id} |->
                        IF k = id THEN Trim(raw) ELSE pendingEdits[k]]
  /\ last' = Did("input") /\ envSteps' = envSteps + 1
  /\ UNCHANGED <<dom, engineVars, debounceTimer, timeouts, sinceNotify, storage, savePc, allNames,
                 inbox, themeVars, stats, envStopped, toggle, undelivered>>

\* the for loop of saveNames: pending edits merged on top of `existing`
MergeEdits(existing, edits) ==
  [k \in (DOMAIN existing \ {id \in DOMAIN edits : edits[id] = <<>>})
           \cup {id \in DOMAIN edits : edits[id] # <<>>} |->
     IF k \in DOMAIN edits THEN edits[k] ELSE existing[k]]

\* click on Save: saveNames(tab) runs up to its storage read
SaveClick ==
  /\ Acting /\ savePc = "idle"
  /\ savePc' = "get"
  /\ last' = Did("saveClick")
  /\ UNCHANGED <<dom, engineVars, debounceTimer, timeouts, sinceNotify, storage, pendingEdits,
                 allNames, inbox, themeVars, envSteps, stats, envStopped, toggle, undelivered>>

\* saveNames resumes with the stored object, merges and calls storage.set
SaveMerge ==
  /\ savePc = "get"
  /\ allNames' = MergeEdits(storage, pendingEdits)
  /\ savePc' = "set"
  /\ last' = Did("saveMerge")
  /\ UNCHANGED <<dom, engineVars, debounceTimer, timeouts, sinceNotify, storage, pendingEdits,
                 inbox, themeVars, envSteps, stats, envStopped, toggle, undelivered>>

\* the write completes; saveNames resumes and sends APPLY_NAMES
SaveSet ==
  /\ savePc = "set"
  /\ storage' = StorageSet(storage, allNames)
  /\ inbox' = Append(inbox, [type |-> "APPLY_NAMES", payload |-> NumericEntries(allNames)])
  /\ savePc' = "sent"
  /\ last' = Did("saveSet")
  /\ UNCHANGED <<dom, engineVars, debounceTimer, timeouts, sinceNotify, pendingEdits, allNames,
                 themeVars, envSteps, stats, envStopped, toggle, undelivered>>

\* the response arrived; saveNames clears pendingEdits and returns
SaveDone ==
  /\ savePc = "sent" /\ inbox = <<>>
  /\ pendingEdits' = EmptyMap
  /\ savePc' = "idle"
  /\ last' = Did("saveDone")
  /\ UNCHANGED <<dom, engineVars, debounceTimer, timeouts, sinceNotify, storage, allNames, inbox,
                 themeVars, envSteps, stats, envStopped, toggle, undelivered>>

----------------------------------------------------------------------------
(* The popup: dark-mode toggle; delivery of its messages *)

\* the 'change' listener of the toggle runs up to its storage write
ToggleChange(enabled) ==
  /\ MayAct /\ toggle.pc = "idle"
  /\ toggle' = [pc |-> "set", enabled |-> enabled]
  /\ last' = Did("toggleChange") /\ envSteps' = envSteps + 1
  /\ UNCHANGED <<dom, engineVars, debounceTimer, timeouts, sinceNotify, storage,
                 pendingEdits, savePc, allNames, undelivered, inbox, themeVars, stats,
                 envStopped>>

\* the write completes; the listener resumes and sends SET_DARK_MODE
ToggleSet ==
  /\ toggle.pc = "set"
  /\ storage' = StorageSet(storage, DarkKey :> toggle.enabled)
  /\ inbox' = Append(inbox, [type |-> "SET_DARK_MODE", payload |-> <<toggle.enabled>>])
  /\ toggle' = [toggle EXCEPT !.pc = "sent"]
  /\ last' = Did("toggleSet")
  /\ UNCHANGED <<dom, engineVars, debounceTimer, timeouts, sinceNotify, pendingEdits,
                 savePc, allNames, undelivered, themeVars, envSteps, stats, envStopped>>

\* sendMessage settled; the listener returns
ToggleDone ==
  /\ toggle.pc = "sent" /\ inbox = <<>>
  /\ toggle' = ToggleIdle
  /\ last' = Did("toggleDone")
  /\ UNCHANGED <<dom, engineVars, debounceTimer, timeouts, sinceNotify, storage,
                 pendingEdits, savePc, allNames, undelivered, inbox, themeVars, envSteps,
                 stats, envStopped>>

DeliverSetDarkMode ==
  /\ inbox # <<>> /\ Head(inbox).type = "SET_DARK_MODE"
  /\ enginePc # "unloaded"
  /\ OnSetDarkMode(Head(inbox).payload[1])
  /\ inbox' = Tail(inbox)

\* a sender without try/catch: the rejection leaves its handler
ThrowsOnSendFailure(pc) == "threw"

\* try { await sendToContentScript(...) } catch { }: the sender goes on
AfterSendFailure(pc) == pc

\* The tab is closed or navigates away: the content script, its timers and
\* its observers are gone with the page.
PageUnload ==
  /\ Acting /\ enginePc # "unloaded"
  /\ dom' = [c \in Cards |-> AbsentCard]
  /\ savedNames' = EmptyMap /\ isDarkMode' = FALSE /\ rootClass' = FALSE
  /\ bsCardSheet' = "null" /\ sheetsMade' = 0 /\ styleEl' = <<>>
  /\ observedRoots' = {} /\ subscriptions' = [s \in Scopes |-> 0]
  /\ debounceTimer' = FALSE /\ timeouts' = 0 /\ sinceNotify' = ClockCap
  /\ enginePc' = "unloaded" /\ namesRead' = NoAnswer
  /\ last' = Did("unload")
  /\ UNCHANGED <<storage, popupVars, inbox, themeVars, envSteps, stats, envStopped>>

\* The page is loaded again with every card rendered; the content script is
\* injected and init() awaits its first read.
PageLoad ==
  /\ enginePc = "unloaded"
  /\ dom' = [c \in Cards |->
               [AbsentCard EXCEPT !.present = TRUE, !.shadow = TRUE, !.dCard = TRUE,
                                  !.href = CourseHref(c), !.cardShadow = TRUE,
                                  !.orgName = TRUE, !.orgShadow = TRUE,
                                  !.text = <<" ", "a">>]]
  /\ enginePc' = "getDark" /\ namesRead' = NoAnswer
  /\ last' = Did("load")
  /\ UNCHANGED <<savedNames, isDarkMode, rootClass, bsCardSheet, sheetsMade, styleEl,
                 observedRoots, subscriptions, debounceTimer, timeouts, sinceNotify,
                 storage, popupVars, inbox, themeVars, envSteps, stats, envStopped>>

\* chrome.tabs.sendMessage rejects: nothing receives the oldest message
DeliveryFails ==
  /\ inbox # <<>> /\ enginePc = "unloaded"
  /\ inbox' = Tail(inbox)
  /\ undelivered' = undelivered \cup {Head(inbox)}
  /\ savePc' = IF Head(inbox).type = "APPLY_NAMES" THEN AfterSendFailure(savePc) ELSE savePc
  /\ toggle' = IF Head(inbox).type = "SET_DARK_MODE"
                 THEN [toggle EXCEPT !.pc = AfterSendFailure(@)] ELSE toggle
  /\ last' = Did("sendFailed")
  /\ UNCHANGED <<dom, engineVars, debounceTimer, timeouts, sinceNotify, storage,
                 pendingEdits, allNames, themeVars, envSteps, stats, envStopped>>

----------------------------------------------------------------------------
(* The palette forms: theme panel of the popup, options page *)

\* what the user may type into a color input
TypedColors ==
  {<<>>, <<"4", "D", "9", "D", "E", "0">>, <<" ", "#", "A", "b", "0", "0", "f", "F", " ">>,
   <<"#", "1", "2", "3", "4", "5">>}

\* the user edits one color input
ThemeInput(slot, raw) ==
  /\ MayAct
  /\ themeInputs' = [themeInputs EXCEPT ![slot] = raw]
  /\ last' = Did("themeInput") /\ envSteps' = envSteps + 1
  /\ UNCHANGED <<dom, engineVars, debounceTimer, timeouts, sinceNotify, storage, popupVars, inbox,
                 themePc, themeLocal, themeSent, stats, envStopped>>

\* click on Reset: every row is set to DEFAULT_THEME
ThemeReset ==
  /\ Acting
  /\ themeInputs # [k \in Slots |-> DEFAULT_THEME[k]]
  /\ themeInputs' = [k \in Slots |-> DEFAULT_THEME[k]]
  /\ last' = Did("themeReset")
  /\ UNCHANGED <<dom, engineVars, debounceTimer, timeouts, sinceNotify, storage, popupVars, inbox,
                 themePc, themeLocal, themeSent, envSteps, stats, envStopped>>

\* the slots of the form whose input normalizes
ValidSlots(form) == {k \in Slots : normalizeHex(form[k]) # Null}

\* the form after the handlers' loop: valid rows are normalized in place
NormalizeInPlace(form) ==
  [k \in Slots |-> IF normalizeHex(form[k]) # Null THEN normalizeHex(form[k]) ELSE form[k]]

\* the colors object the Apply handler of the popup builds in its loop
PopupColors(form) == [k \in ValidSlots(form) |-> normalizeHex(form[k])]

\* readCurrentColors() of the options page
readCurrentColors(form) ==
  [k \in Slots |-> IF normalizeHex(form[k]) # Null THEN normalizeHex(form[k])
                                                  ELSE DEFAULT_THEME[k]]

\* a handler without `if (!allValid) return`
SubmitPaletteUnchecked(valid, colors) ==
  /\ themePc' = "set"
  /\ themeLocal' = colors

\* if (!allValid) return; otherwise the handler goes on to storage.set
SubmitPalette(valid, colors) ==
  IF valid # Slots
    THEN /\ themePc' = "idle"
         /\ themeLocal' = themeLocal
    ELSE /\ themePc' = "set"
         /\ themeLocal' = colors

Verdict(valid) ==
  [kind |-> IF valid = Slots THEN "accepted" ELSE "rejected", courses |-> <<>>]

\* click on Apply in the popup's theme panel
ApplyClick ==
  /\ Acting /\ themePc = "idle"
  /\ themeInputs' = NormalizeInPlace(themeInputs)
  /\ SubmitPalette(ValidSlots(themeInputs), PopupColors(themeInputs))
  /\ last' = [op |-> "themeApply", arg |-> themeInputs,
              response |-> Verdict(ValidSlots(themeInputs))]
  /\ UNCHANGED <<dom, engineVars, debounceTimer, timeouts, sinceNotify, storage, popupVars, inbox,
                 themeSent, envSteps, stats, envStopped>>

\* click on Save in the options page
OptionsSave ==
  /\ Acting /\ themePc = "idle"
  /\ themeInputs' = NormalizeInPlace(themeInputs)
  /\ SubmitPalette(ValidSlots(themeInputs), readCurrentColors(NormalizeInPlace(themeInputs)))
  /\ last' = [op |-> "optionsSave", arg |-> themeInputs,
              response |-> Verdict(ValidSlots(themeInputs))]
  /\ UNCHANGED <<dom, engineVars, debounceTimer, timeouts, sinceNotify, storage, popupVars, inbox,
                 themeSent, envSteps, stats, envStopped>>

\* await chrome.storage.local.set({ themeColors: colors })
ThemePersist ==
  /\ themePc = "set"
  /\ storage' = StorageSet(storage, [k \in {ThemeKey} |-> themeLocal])
  /\ themePc' = "broadcast"
  /\ last' = Did("themePersist")
  /\ UNCHANGED <<dom, engineVars, debounceTimer, timeouts, sinceNotify, popupVars, inbox,
                 themeInputs, themeLocal, themeSent, envSteps, stats, envStopped>>

\* await broadcastTheme(colors): APPLY_THEME to the open tab
ThemeBroadcast ==
  /\ themePc = "broadcast"
  /\ inbox' = Append(inbox, [type |-> "APPLY_THEME", payload |-> themeLocal])
  /\ themeSent' = <<themeLocal>>
  /\ themePc' = "idle"
  /\ last' = Did("themeBroadcast")
  /\ UNCHANGED <<dom, engineVars, debounceTimer, timeouts, sinceNotify, storage, popupVars,
                 themeInputs, themeLocal, envSteps, stats, envStopped>>

----------------------------------------------------------------------------
(* Initial states *)

\* a course card the host finished rendering before the content script ran
RenderedCard(c, t) ==
  [AbsentCard EXCEPT !.present = TRUE, !.shadow = TRUE, !.dCard = TRUE,
                     !.href = CourseHref(c), !.cardShadow = TRUE, !.orgName = TRUE,
                     !.orgShadow = TRUE, !.text = t]

InitialCards(c) == {AbsentCard, RenderedCard(c, <<>>), RenderedCard(c, <<" ", "a">>)}

InitialPages == {d \in [Cards -> UNION {InitialCards(c) : c \in Cards}] :
                   \A c \in Cards : d[c] \in InitialCards(c)}

\* a page without course cards, and the course home with every card rendered
NoCards == [c \in Cards |-> AbsentCard]
CourseHome == [c \in Cards |-> RenderedCard(c, <<" ", "a">>)]

\* chrome.storage.local when the page loads: one override saved earlier
InitialStores ==
  {(DarkKey :> FALSE) @@ (IdDigits(CourseNumber(1)) :> <<"x">>)}

DefaultForm == [k \in Slots |-> DEFAULT_THEME[k]]

\* the content script has just been injected: init() awaits its first read
EngineFresh ==
  /\ savedNames = EmptyMap
  /\ isDarkMode = FALSE
  /\ rootClass = FALSE
  /\ bsCardSheet = "null"
  /\ sheetsMade = 0
  /\ styleEl = <<>>
  /\ observedRoots = {}
  /\ subscriptions = [s \in Scopes |-> 0]
  /\ debounceTimer = FALSE
  /\ timeouts = 0
  /\ sinceNotify = ClockCap
  /\ enginePc = "getDark"
  /\ namesRead = NoAnswer

\* init() has completed on a page without course cards and with empty storage
EngineLoaded ==
  /\ savedNames = EmptyMap
  /\ isDarkMode = FALSE
  /\ rootClass = FALSE
  /\ bsCardSheet = "null"
  /\ sheetsMade = 0
  /\ styleEl = injectDarkModeStyles(<<>>, EmptyMap)
  /\ observedRoots = observeRoot(NoCards, {}, Body)
  /\ subscriptions = SubscribeRoots(NoCards, {}, [s \in Scopes |-> 0], <<Body>>)
  /\ debounceTimer = FALSE
  /\ timeouts = 0
  /\ sinceNotify = ClockCap
  /\ enginePc = "done"
  /\ namesRead = NoAnswer

\* the popup and the options page have just been opened
FormsFresh ==
  /\ pendingEdits = EmptyMap
  /\ savePc = "idle"
  /\ allNames = EmptyMap
  /\ toggle = ToggleIdle
  /\ undelivered = {}
  /\ inbox = <<>>
  /\ themePc = "idle"
  /\ themeLocal = EmptyMap
  /\ themeSent = <<>>

EnvFresh ==
  /\ last = Did("load")
  /\ envSteps = 0
  /\ envStopped = FALSE

----------------------------------------------------------------------------
(* The engine under the host page and commands: specification Spec *)

Init ==
  /\ EngineFresh /\ FormsFresh /\ EnvFresh
  /\ dom \in InitialPages
  /\ storage \in InitialStores
  /\ themeInputs = DefaultForm
  /\ stats = NoStats

Host ==
  \/ \E c \in Cards, rendered \in BOOLEAN : \E h \in Hrefs(c) : HostInsert(c, rendered, h)
  \/ \E c \in Cards : \E h \in Hrefs(c) : HostRender(c, h)
  \/ \E c \in Cards, which \in {"org", "card"} : HostUpgrade(c, which)
  \/ \E c \in Cards, t \in HostTexts : HostSetText(c, t)

\* time passes until the pending timer is due
TimerElapses == debounceTimer /\ Tick(ClockCap)

CmdGetCourses == Acting /\ OnGetCourses /\ UNCHANGED inbox
CmdApplyNames == \E names \in NameMaps : Acting /\ OnApplyNames(names) /\ UNCHANGED inbox
CmdSetDarkMode == \E enabled \in BOOLEAN : Acting /\ OnSetDarkMode(enabled) /\ UNCHANGED inbox

Next ==
  \/ Host
  \/ TimerElapses
  \/ TimerFire
  \/ InitDark
  \/ InitNames
  \/ CmdGetCourses
  \/ CmdApplyNames
  \/ CmdSetDarkMode

Spec == Init /\ [][Next]_vars

----------------------------------------------------------------------------
(* The engine once its environment stops: specification LiveSpec *)

NextLive ==
  \/ Host
  \/ StopEnv
  \/ TimerElapses
  \/ TimerFire
  \/ InitDark
  \/ InitNames
  \/ CmdApplyNames

\* init() resumes: the steps InitDark and InitNames, seen on enginePc alone
InitResumes ==
  /\ enginePc # "done"
  /\ enginePc' = (IF enginePc = "getDark" THEN "getNames" ELSE "done")

\* a due timer runs: the step TimerFire, seen on the timer alone (the timer is
\* cleared, or set again by the notifications of the pass's own writes)
TimerRuns ==
  /\ debounceTimer /\ sinceNotify >= DebounceMs
  /\ debounceTimer' \in BOOLEAN
  /\ sinceNotify' \in {0, sinceNotify}

\* promises resolve, time passes and due timers fire
Fairness ==
  /\ WF_enginePc(InitResumes)
  /\ WF_vars(TimerElapses)
  /\ WF_<<debounceTimer, sinceNotify>>(TimerRuns)

LiveSpec == Init /\ [][NextLive]_vars /\ Fairness

----------------------------------------------------------------------------
(* The debounce: specification SpecDebounce *)

InitDebounce ==
  /\ EngineFresh /\ FormsFresh /\ EnvFresh
  /\ dom \in InitialPages
  /\ storage \in InitialStores
  /\ themeInputs = DefaultForm
  /\ stats = [NoStats EXCEPT !.on = TRUE]

ClockTick == Tick(TickMs)

NextDebounce ==
  \/ Host
  \/ ClockTick
  \/ TimerFire
  \/ InitDark
  \/ InitNames

SpecDebounce == InitDebounce /\ [][NextDebounce]_vars

----------------------------------------------------------------------------
(* The watcher under a host that wraps, seals and moves cards: SpecWatch *)

\* The host inserts a plain div that holds a fully rendered card.
HostInsertWrapped(c, h) ==
  /\ MayAct /\ Room(1)
  /\ ~dom[c].present
  /\ dom' = [dom EXCEPT ![c] = [RenderedCard(c, <<"b">>) EXCEPT !.wrapped = TRUE,
                                                               !.href = h]]
  /\ Callbacks(dom', observedRoots, subscriptions, {WrapRoot}, <<(<<"div", c>>)>>,
               debounceTimer, stats)
  /\ last' = [Did("host") EXCEPT !.arg = <<c>>] /\ envSteps' = envSteps + 1
  /\ UNCHANGED <<savedNames, isDarkMode, rootClass, bsCardSheet, sheetsMade, styleEl,
                 enginePc, namesRead, storage, popupVars, inbox, themeVars, envStopped>>

\* The host inserts a rendered card whose shadow root is closed.
HostInsertClosed(c, h) ==
  /\ MayAct /\ Room(1)
  /\ ~dom[c].present
  /\ dom' = [dom EXCEPT ![c] = [RenderedCard(c, <<"b">>) EXCEPT !.closed = TRUE,
                                                               !.href = h]]
  /\ Callbacks(dom', observedRoots, subscriptions, {WrapRoot},
               <<(<<"d2l-enrollment-card", c>>)>>, debounceTimer, stats)
  /\ last' = [Did("host") EXCEPT !.arg = <<c>>] /\ envSteps' = envSteps + 1
  /\ UNCHANGED <<savedNames, isDarkMode, rootClass, bsCardSheet, sheetsMade, styleEl,
                 enginePc, namesRead, storage, popupVars, inbox, themeVars, envStopped>>

\* The host takes a card out of the course list and puts it back (a re-sort):
\* one record whose added node is the card, or the div that holds it.
HostReinsert(c) ==
  /\ MayAct /\ Room(1)
  /\ dom[c].present
  /\ dom' = dom
  /\ Callbacks(dom, observedRoots, subscriptions, {WrapRoot},
               <<(<<(IF dom[c].wrapped THEN "div" ELSE "d2l-enrollment-card"), c>>)>>,
               debounceTimer, stats)
  /\ last' = [Did("reinsert") EXCEPT !.arg = <<c>>] /\ envSteps' = envSteps + 1
  /\ UNCHANGED <<savedNames, isDarkMode, rootClass, bsCardSheet, sheetsMade, styleEl,
                 enginePc, namesRead, storage, popupVars, inbox, themeVars, envStopped>>

HostMore ==
  \/ \E c \in Cards : \E h \in Hrefs(c) : HostInsertWrapped(c, h)
  \/ \E c \in Cards : \E h \in Hrefs(c) : HostInsertClosed(c, h)
  \/ \E c \in Cards : HostReinsert(c)

NextWatch ==
  \/ Host
  \/ HostMore
  \/ TimerElapses
  \/ TimerFire
  \/ InitDark
  \/ InitNames

SpecWatch == Init /\ [][NextWatch]_vars

----------------------------------------------------------------------------
(* Card gradients of short and of long course ids: SpecGradient *)

\* course ids as the host may print them, up to MaxIdLen digits
GradientIds ==
  {s \in {AsDigits(<<7>>), AsDigits(<<0, 1, 2>>), AsDigits(<<4, 8, 3, 9, 1, 5>>),
          AsDigits(<<9, 0, 0, 7, 1, 9, 9, 2, 5, 4, 7, 4, 0, 9, 9, 1>>),
          TwoTo53,
          AsDigits(<<9, 0, 0, 7, 1, 9, 9, 2, 5, 4, 7, 4, 0, 9, 9, 3>>),
          AsDigits(<<9, 0, 0, 7, 1, 9, 9, 2, 5, 4, 7, 4, 0, 9, 9, 5>>),
          AsDigits(<<9, 9, 9, 9, 9, 9, 9, 9, 9, 9, 9, 9, 9, 9, 9, 9>>)} :
     Len(s) <= MaxIdLen}

GradientPages ==
  {d \in [Cards -> {[RenderedCard(c, <<"a">>) EXCEPT !.href = HomePrefix \o id] :
                      c \in Cards, id \in GradientIds}] : TRUE}

InitGradient ==
  /\ EngineFresh /\ FormsFresh /\ EnvFresh
  /\ dom \in GradientPages
  /\ storage \in {EmptyMap, [k \in {DarkKey} |-> TRUE]}
  /\ themeInputs = DefaultForm
  /\ stats = NoStats

NextGradient ==
  \/ InitDark
  \/ InitNames
  \/ CmdSetDarkMode
  \/ CmdApplyNames

SpecGradient == InitGradient /\ [][NextGradient]_vars

----------------------------------------------------------------------------
(* Overrides as any sender may put them into APPLY_NAMES: SpecNames *)

\* override strings: as the popup stores them, and with a leading blank
AnyNames == {<<"x">>, <<" ", "x">>}
AnyNameMaps == UNION {[S -> AnyNames] : S \in SUBSET Ids}

CmdApplyAnyNames ==
  \E names \in AnyNameMaps : Acting /\ OnApplyNames(names) /\ UNCHANGED inbox

HostSetsText == \E c \in Cards, t \in HostTexts : HostSetText(c, t)

NextNames ==
  \/ HostSetsText
  \/ CmdApplyAnyNames
  \/ TimerElapses
  \/ TimerFire
  \/ InitDark
  \/ InitNames

SpecNames == Init /\ [][NextNames]_vars

----------------------------------------------------------------------------
(* APPLY_THEME with palettes that miss slots: SpecStyle *)

StyleColors == {Hx("a", "b", "c", "d", "e", "f"), Hx("0", "0", "0", "0", "0", "0")}
PartialPalettes == UNION {[S -> StyleColors] : S \in SUBSET Slots}

InitStyle ==
  /\ EngineFresh /\ FormsFresh /\ EnvFresh
  /\ dom = NoCards
  /\ storage \in {EmptyMap} \cup
                  {[k \in {ThemeKey} |-> p] : p \in {q \in PartialPalettes : DOMAIN q = Slots}}
  /\ themeInputs = DefaultForm
  /\ stats = NoStats

CmdApplyTheme ==
  \E colors \in PartialPalettes : Acting /\ OnApplyTheme(colors) /\ UNCHANGED inbox

NextStyle ==
  \/ CmdApplyTheme
  \/ InitDark
  \/ InitNames

SpecStyle == InitStyle /\ [][NextStyle]_vars

----------------------------------------------------------------------------
(* A burst of insertions: specification SpecBurst *)

\* labels the host renders into the cards of a burst
BurstTexts == {<<" ", "a">>, <<"b">>}

\* The host inserts the cards S into the course list in one task, each with
\* its shadow tree and its companions rendered and labelled.
HostInsertBurst(S, texts) ==
  /\ MayAct /\ Room(1)
  /\ S # {} /\ \A c \in S : ~dom[c].present
  /\ dom' = [c \in Cards |-> IF c \in S THEN RenderedCard(c, texts[c]) ELSE dom[c]]
  /\ Callbacks(dom', observedRoots, subscriptions, {WrapRoot},
               SelectSeq(PresentCards(dom', 1), LAMBDA el : el[2] \in S),
               debounceTimer, stats)
  /\ last' = [Did("burst") EXCEPT !.arg = S] /\ envSteps' = envSteps + 1
  /\ UNCHANGED <<savedNames, isDarkMode, rootClass, bsCardSheet, sheetsMade, styleEl,
                 enginePc, namesRead, storage, popupVars, inbox, themeVars, envStopped>>

InitBurst ==
  /\ EngineLoaded /\ FormsFresh /\ EnvFresh
  /\ dom = NoCards
  /\ storage = EmptyMap
  /\ themeInputs = DefaultForm
  /\ stats = [NoStats EXCEPT !.on = TRUE]

\* overrides arrive before the host renders the cards
NamesFirst == envSteps = 0 /\ CmdApplyNames

Burst == \E S \in SUBSET Cards : \E texts \in [Cards -> BurstTexts] : HostInsertBurst(S, texts)

NextBurst ==
  \/ NamesFirst
  \/ Burst
  \/ ClockTick
  \/ TimerFire

SpecBurst == InitBurst /\ [][NextBurst]_vars

----------------------------------------------------------------------------
(* Saving names from the popup: specification SpecPopup *)

\* what chrome.storage.local may hold when the popup is opened
PopupStores ==
  {EmptyMap,
   (DarkKey :> TRUE) @@ (IdDigits(CourseNumber(1)) :> <<"x">>)}

InitPopup ==
  /\ EngineFresh /\ FormsFresh /\ EnvFresh
  /\ dom = CourseHome
  /\ storage \in PopupStores
  /\ themeInputs = DefaultForm
  /\ stats = NoStats

NextPopup ==
  \/ \E id \in Ids, raw \in TypedNames : UserInput(id, raw)
  \/ SaveClick
  \/ SaveMerge
  \/ SaveSet
  \/ SaveDone
  \/ DeliverApplyNames
  \/ TimerElapses
  \/ TimerFire
  \/ InitDark
  \/ InitNames

SpecPopup == InitPopup /\ [][NextPopup]_vars

----------------------------------------------------------------------------
(* Commands to a page that may be gone: specification SpecSoft *)

NextSoft ==
  \/ \E raw \in TypedNames : UserInput(IdDigits(CourseNumber(2)), raw)
  \/ SaveClick
  \/ SaveMerge
  \/ SaveSet
  \/ SaveDone
  \/ \E enabled \in BOOLEAN : ToggleChange(enabled)
  \/ ToggleSet
  \/ ToggleDone
  \/ DeliverApplyNames
  \/ DeliverSetDarkMode
  \/ DeliveryFails
  \/ PageUnload
  \/ PageLoad
  \/ TimerElapses
  \/ TimerFire
  \/ InitDark
  \/ InitNames

SpecSoft == InitPopup /\ [][NextSoft]_vars

----------------------------------------------------------------------------
(* init() and a save of the popup side by side: SpecInit *)

NextInit ==
  \/ \E raw \in TypedNames \ {<<" ">>} : UserInput(IdDigits(CourseNumber(2)), raw)
  \/ SaveClick
  \/ SaveMerge
  \/ SaveSet
  \/ SaveDone
  \/ DeliverApplyNames
  \/ InitDark
  \/ StorageAnswers
  \/ InitNames
  \/ TimerElapses
  \/ TimerFire

SpecInit == InitPopup /\ [][NextInit]_vars

----------------------------------------------------------------------------
(* Submitting palettes: specifications SpecTheme and SpecHex *)

InitTheme ==
  /\ EngineFresh /\ FormsFresh /\ EnvFresh
  /\ dom = NoCards
  /\ storage = EmptyMap
  /\ themeInputs = DefaultForm
  /\ stats = NoStats

\* the previous broadcast has been delivered
Delivered == inbox = <<>>

NextTheme ==
  \/ \E slot \in Slots, raw \in TypedColors : ThemeInput(slot, raw)
  \/ ThemeReset
  \/ Delivered /\ ApplyClick
  \/ Delivered /\ OptionsSave
  \/ ThemePersist
  \/ ThemeBroadcast
  \/ DeliverApplyTheme
  \/ InitDark
  \/ InitNames

SpecTheme == InitTheme /\ [][NextTheme]_vars

\* inputs of normalizeHex: an optional blank and '#', a run of hex digits of
\* either case, an optional trailing blank or letter that is no hex digit
HexSample == {"a", "F"}
HexRuns == UNION {[1..n -> HexSample] : n \in 0..MaxHexLen}
RawInputs ==
  {pre \o run \o post : pre \in {<<>>, <<"#">>, <<" ", "#">>},
                        run \in HexRuns,
                        post \in {<<>>, <<" ">>, <<"g">>}}

InitHex ==
  /\ EngineLoaded /\ FormsFresh /\ EnvFresh
  /\ dom = NoCards
  /\ storage = EmptyMap
  /\ themeInputs \in {[DefaultForm EXCEPT !["accent"] = raw] : raw \in RawInputs}
  /\ stats = NoStats

NextHex ==
  \/ Delivered /\ ApplyClick
  \/ Delivered /\ OptionsSave
  \/ ThemePersist
  \/ ThemeBroadcast
  \/ DeliverApplyTheme

SpecHex == InitHex /\ [][NextHex]_vars

----------------------------------------------------------------------------
(* Properties *)

\* the operations that run applyAllNames
PassOps == {"timer", "APPLY_NAMES", "initNames"}

\* the course id of a card's d2l-card
IdOf(rec) == extractCourseId(rec.href)

\* an item displays `name`: its visible text, leading and trailing blanks
\* aside, and its 'text' attribute are `name`
Displays(rec, name) == Trim(rec.text) = name /\ rec.attrText = name

HasGradient(rec) == rec.gradient # NoGradient
HasSheet(rec) == \E i \in 1..Len(rec.sheets) : rec.sheets[i] = TheSheet

\* C1: right after a synchronization pass, a second pass over the same map,
\* flag and page would perform no DOM write at all (no marker, text,
\* attribute, style or style-sheet write).
C1_SecondPassWritesNothing ==
  last.op \in PassOps =>
    applyAllNames(dom, savedNames, isDarkMode).writes = NoWrites

\* the second pass of C1 writes no visible text and no 'text' attribute
C1_SecondPassWritesNoName ==
  last.op \in PassOps =>
    /\ applyAllNames(dom, savedNames, isDarkMode).writes.text = 0
    /\ applyAllNames(dom, savedNames, isDarkMode).writes.attr = 0

\* in dark mode the second pass of C1 sets no style property
C1_SecondPassWritesNoStyle ==
  (last.op \in PassOps /\ isDarkMode) =>
    applyAllNames(dom, savedNames, isDarkMode).writes.style = 0

\* C2: from some point on, whenever the host page and the user have stopped
\* no debounced pass is pending: after they stop (and they never resume) the
\* engine's own writes do not keep scheduling passes.
C2_Quiescence == <>[](envStopped => ~debounceTimer)

\* the environment has stopped and a pass has just scheduled another pass
\* through the notifications of its own writes
C2_Witness ==
  /\ envStopped
  /\ last.op \in {"timer", "initNames"}
  /\ debounceTimer /\ sinceNotify = 0

\* C3: a marker (dataset.bsOriginal) that is set keeps its value in every
\* step: discovery passes, APPLY_NAMES, dark-mode toggles, host rewrites.
C3_OriginalKept ==
  [][\A c \in Cards :
       Truthy(dom[c].bsOriginal) => dom'[c].bsOriginal = dom[c].bsOriginal]_vars

\* a discovery has just run over a target whose visible text differs from
\* its marker
C3_Witness ==
  /\ last.op = "GET_COURSES"
  /\ \E c \in Cards :
       /\ IsTarget(dom[c]) /\ Truthy(dom[c].bsOriginal)
       /\ Trim(dom[c].text) # dom[c].bsOriginal

\* C4: as long as every notification came less than the debounce delay after
\* the previous one, the notifications (at least one) have produced no
\* debounced pass while the timer is pending and exactly one once it fired;
\* as long as every notification came alone and more than the delay after the
\* previous one, N notifications have produced N passes once the timer fired.
C4_Coalescing ==
  stats.notifs >= 1 =>
    /\ stats.close => stats.passes = (IF debounceTimer THEN 0 ELSE 1)
    /\ stats.far => stats.passes = stats.notifs - (IF debounceTimer THEN 1 ELSE 0)

\* several notifications inside the window, one pass
C4_Witness ==
  stats.close /\ stats.notifs >= 2 /\ stats.passes = 1 /\ ~debounceTimer

\* several notifications spaced beyond the window, as many passes
C4_WitnessFar ==
  stats.far /\ stats.notifs >= 2 /\ stats.passes = stats.notifs /\ ~debounceTimer

\* C5: the step that handles APPLY_NAMES with map M leaves savedNames = M,
\* answers {ok: true}, keeps every marker that was set, and leaves every
\* discovered item whose marker is set displaying M[id] if that is a
\* non-empty entry and the marker otherwise.
C5_ApplyNames ==
  [][last'.op = "APPLY_NAMES" =>
       /\ savedNames' = last'.arg
       /\ last'.response = OkResponse
       /\ \A c \in Cards :
            /\ Truthy(dom[c].bsOriginal) => dom'[c].bsOriginal = dom[c].bsOriginal
            /\ IsTarget(dom'[c]) /\ Truthy(dom'[c].bsOriginal) =>
                 Displays(dom'[c],
                          DisplayName(Lookup(last'.arg, IdOf(dom'[c])),
                                      dom'[c].bsOriginal))]_vars

\* APPLY_NAMES has just been handled with one item renamed and another item,
\* absent from the map, showing its original label
C5_Witness ==
  /\ last.op = "APPLY_NAMES"
  /\ \E c \in Cards :
       /\ IsTarget(dom[c]) /\ Truthy(dom[c].bsOriginal)
       /\ IdOf(dom[c]) \in DOMAIN last.arg
       /\ dom[c].text = last.arg[IdOf(dom[c])]
       /\ dom[c].text # dom[c].bsOriginal
  /\ \E c \in Cards :
       /\ IsTarget(dom[c]) /\ Truthy(dom[c].bsOriginal)
       /\ IdOf(dom[c]) \notin DOMAIN last.arg
       /\ Displays(dom[c], dom[c].bsOriginal)

\* no id maps to the empty string in storage or in the engine's map
C6_NoEmptyOverride ==
  /\ \A id \in DOMAIN storage : IsNumericKey(id) => storage[id] # <<>>
  /\ \A id \in DOMAIN savedNames : savedNames[id] # <<>>

\* saveNames' loop leaves no entry for an edit trimmed to the empty string
\* and the trimmed value for every other edit
MergedAsEdited ==
  (savePc = "get" /\ savePc' = "set") =>
    \A id \in DOMAIN pendingEdits :
      IF pendingEdits[id] = <<>>
        THEN id \notin DOMAIN allNames'
        ELSE id \in DOMAIN allNames' /\ allNames'[id] = pendingEdits[id]

\* the write and the message of saveNames hold exactly the course entries of
\* its map, none of them empty
WrittenAsMerged ==
  (savePc = "set" /\ savePc' = "sent") =>
    \A id \in Ids :
      IF id \in DOMAIN allNames
        THEN /\ allNames[id] # <<>>
             /\ id \in DOMAIN storage' /\ storage'[id] = allNames[id]
             /\ id \in DOMAIN inbox'[Len(inbox')].payload
             /\ inbox'[Len(inbox')].payload[id] = allNames[id]
        ELSE /\ id \notin DOMAIN storage'
             /\ id \notin DOMAIN inbox'[Len(inbox')].payload

\* C6: saveNames removes the id of every edit trimmed to the empty string
\* from the persisted map and from the map it sends, stores every other edit
\* under its id, and no id maps to the empty string in storage or in the
\* engine's map.
C6_SaveNames ==
  [][MergedAsEdited /\ WrittenAsMerged /\ C6_NoEmptyOverride']_vars

\* saveNames has written after an edit that cleared a stored override
C6_Witness ==
  /\ last.op = "saveSet"
  /\ \E id \in Ids : id \in DOMAIN storage /\ id \notin DOMAIN allNames

\* a full palette of valid colors
FullPalette(p) == DOMAIN p = Slots /\ \A k \in Slots : IsHexColor(p[k])

\* every palette on its way to storage, persisted, sent or injected is full
PalettesFull ==
  /\ themePc # "idle" => FullPalette(themeLocal)
  /\ ThemeKey \in DOMAIN storage => FullPalette(storage[ThemeKey])
  /\ \A i \in 1..Len(themeSent) : FullPalette(themeSent[i])
  /\ \A i \in 1..Len(inbox) : FullPalette(inbox[i].payload)

\* a step that handles a submission of a form with a slot that fails
\* normalization ends the handler and writes and sends nothing
RejectedWhole ==
  (themePc = "idle" /\ last'.op \in {"themeApply", "optionsSave"}
     /\ ValidSlots(themeInputs) # Slots)
  => /\ themePc' = "idle"
     /\ storage' = storage /\ inbox' = inbox /\ themeSent' = themeSent

\* C7: a submitted palette with a slot that fails normalization is rejected
\* as a whole (nothing persisted, nothing sent), and every palette persisted
\* or broadcast has its four slots present and valid.
C7_AllOrNothing == []PalettesFull /\ [][RejectedWhole]_vars

\* a submission has just been rejected although some of its slots were valid
C7_Witness ==
  /\ last.op \in {"themeApply", "optionsSave"}
  /\ last.response.kind = "rejected"
  /\ ValidSlots(last.arg) # {}
  /\ ThemeKey \in DOMAIN storage

\* the canonical form: '#' and six lowercase hex digits, or Null
CanonicalHex(raw) ==
  IF IsBareHex(Trim(raw)) THEN <<"#">> \o ToLowerCase(Trim(raw))
  ELSE IF IsHexColor(Trim(raw)) THEN ToLowerCase(Trim(raw))
  ELSE Null

IsCanonical(v) == IsHexColor(v) /\ \A i \in 1..Len(v) : v[i] \notin UpperHex

\* C8: a submission leaves in every input that is six hex digits, with or
\* without '#', what normalizeHex returned for it, and that is the canonical
\* lowercase form; every other input is left as typed and makes the handler
\* reject the form (normalizeHex returned null); every color persisted or
\* broadcast is in canonical form.
C8_Canonical ==
  /\ last.op \in {"themeApply", "optionsSave"} =>
       \A k \in Slots :
         IF CanonicalHex(last.arg[k]) = Null
           THEN themeInputs[k] = last.arg[k] /\ last.response.kind = "rejected"
           ELSE themeInputs[k] = CanonicalHex(last.arg[k])
  /\ ThemeKey \in DOMAIN storage =>
       \A k \in DOMAIN storage[ThemeKey] : IsCanonical(storage[ThemeKey][k])
  /\ \A i \in 1..Len(themeSent) :
       \A k \in DOMAIN themeSent[i] : IsCanonical(themeSent[i][k])

\* the colors persisted and broadcast are in canonical form
C8_PersistedCanonical ==
  /\ ThemeKey \in DOMAIN storage =>
       \A k \in DOMAIN storage[ThemeKey] : IsCanonical(storage[ThemeKey][k])
  /\ \A i \in 1..Len(themeSent) :
       \A k \in DOMAIN themeSent[i] : IsCanonical(themeSent[i][k])

\* normalizeHex agrees with the canonical form except for the case of the
\* digits of an input without '#'
C8_UpToCase ==
  \A k \in Slots :
    IF CanonicalHex(themeInputs[k]) = Null
      THEN normalizeHex(themeInputs[k]) = Null
      ELSE /\ normalizeHex(themeInputs[k]) # Null
           /\ ToLowerCase(normalizeHex(themeInputs[k])) = CanonicalHex(themeInputs[k])
           /\ (Trim(themeInputs[k])[1] = "#" =>
                 normalizeHex(themeInputs[k]) = CanonicalHex(themeInputs[k]))

\* the entries GET_COURSES is to return for page d: one per discoverable
\* target whose marker is set, in document order
RECURSIVE CapturedEntries(_, _, _)
CapturedEntries(d, names, c) ==
  IF c > NumCards THEN <<>>
  ELSE (IF IsTarget(d[c]) /\ Truthy(d[c].bsOriginal)
          THEN <<[id |-> IdOf(d[c]),
                  originalName |-> d[c].bsOriginal,
                  savedName |-> IF IdOf(d[c]) \in DOMAIN names
                                  THEN names[IdOf(d[c])] ELSE <<>>]>>
          ELSE <<>>)
       \o CapturedEntries(d, names, c + 1)

\* C9: the step that handles GET_COURSES answers with one entry {id,
\* originalName, savedName} per discoverable target whose marker is set,
\* savedName being the override of the id or the empty string, and changes
\* neither savedNames nor any visible text nor any 'text' attribute.
C9_GetCourses ==
  [][last'.op = "GET_COURSES" =>
       /\ last'.response.courses = CapturedEntries(dom', savedNames, 1)
       /\ savedNames' = savedNames
       /\ \A c \in Cards :
            dom'[c].text = dom[c].text /\ dom'[c].attrText = dom[c].attrText]_vars

\* GET_COURSES has just answered with a renamed course while another target,
\* still loading, was left out
C9_Witness ==
  /\ last.op = "GET_COURSES"
  /\ \E i \in 1..Len(last.response.courses) : last.response.courses[i].savedName # <<>>
  /\ \E c \in Cards : IsTarget(dom[c]) /\ ~Truthy(dom[c].bsOriginal)

\* the flag is off: no class on the root, no gradient and no shared sheet on
\* any card
DarkOff ==
  ~isDarkMode =>
    /\ ~rootClass
    /\ \A c \in Cards : ~HasGradient(dom[c]) /\ ~HasSheet(dom[c])

\* C10 as stated: right after SET_DARK_MODE{enabled: true} the root has the
\* class and every discovered item has the gradient and the shared sheet;
\* while the flag is off the root lacks the class and no card has either.
C10_AsStated ==
  /\ (last.op = "SET_DARK_MODE" /\ last.arg = <<TRUE>>) =>
       /\ rootClass
       /\ \A c \in Cards :
            IsTarget(dom[c]) => HasGradient(dom[c]) /\ HasSheet(dom[c])
  /\ DarkOff

\* C10: right after SET_DARK_MODE{enabled: true} the root has the class and
\* every discovered item has the gradient and, if its d2l-card has a shadow
\* root, the shared sheet; while the flag is off the root lacks the class and
\* no card has the gradient or the shared sheet.
C10_DarkMode ==
  /\ (last.op = "SET_DARK_MODE" /\ last.arg = <<TRUE>>) =>
       /\ rootClass
       /\ \A c \in Cards :
            IsTarget(dom[c]) =>
              /\ HasGradient(dom[c])
              /\ dom[c].cardShadow => HasSheet(dom[c])
  /\ DarkOff

\* dark mode has just been switched on over an item with the shared sheet
\* and an item whose d2l-card has no shadow root yet
C10_Witness ==
  /\ last.op = "SET_DARK_MODE" /\ last.arg = <<TRUE>>
  /\ \E c \in Cards : IsTarget(dom[c]) /\ HasGradient(dom[c]) /\ HasSheet(dom[c])
  /\ \E c \in Cards : IsTarget(dom[c]) /\ HasGradient(dom[c]) /\ ~dom[c].cardShadow

\* dark mode has just been switched off after cards had been enhanced
C10_WitnessOff ==
  /\ last.op = "SET_DARK_MODE" /\ last.arg = <<FALSE>>
  /\ bsCardSheet # "null"
  /\ \E c \in Cards : IsTarget(dom[c]) /\ dom[c].cardShadow

\* C11: when the delivery of APPLY_NAMES or SET_DARK_MODE fails, the sender
\* does not throw and the store keeps what was written, the sender's return
\* included; and each initialization of the engine takes the dark-mode flag
\* and the override map from the store and applies them: the root class
\* follows the flag, and every item found with its original label captured
\* displays its override, or its original label when it has none.
C11_InitApplies ==
  /\ (enginePc = "getDark" /\ enginePc' = "getNames") =>
        /\ isDarkMode' = StoredDark(storage)
        /\ rootClass' = StoredDark(storage)
  /\ (enginePc = "getNames" /\ enginePc' = "done") =>
        /\ savedNames' = NumericEntries(storage)
        /\ \A c \in Cards :
             (IsTarget(dom'[c]) /\ dom'[c].present /\ Truthy(dom'[c].bsOriginal)) =>
               /\ Displays(dom'[c], DisplayName(Lookup(NumericEntries(storage), IdOf(dom'[c])),
                                                dom'[c].bsOriginal))
               /\ isDarkMode => HasGradient(dom'[c])

C11_SoftFailure ==
  [][/\ (last'.op = "sendFailed") =>
          storage' = storage /\ savePc' # "threw" /\ toggle'.pc # "threw"
     /\ (savePc = "sent" /\ savePc' = "idle") => storage' = storage
     /\ (toggle.pc = "sent" /\ toggle'.pc = "idle") => storage' = storage
     /\ C11_InitApplies]_vars

\* an APPLY_NAMES and a SET_DARK_MODE were lost, the page was loaded again
\* and its engine shows what they carried
C11_Witness ==
  /\ enginePc = "done" /\ last.op = "initNames"
  /\ \E m \in undelivered :
        /\ m.type = "APPLY_NAMES"
        /\ m.payload = savedNames
        /\ IdDigits(CourseNumber(2)) \in DOMAIN savedNames
  /\ \E m \in undelivered :
        /\ m.type = "SET_DARK_MODE"
        /\ m.payload = <<isDarkMode>>
  /\ savePc = "idle" /\ toggle.pc = "idle"

\* every card of the page displays its override, or the label the host gave
\* it when it has none, and that label is its captured original
Labeled(d, names) ==
  \A c \in Cards :
    d[c].present =>
      /\ d[c].bsOriginal \in {Trim(x) : x \in BurstTexts}
      /\ Displays(d[c], DisplayName(Lookup(names, IdOf(d[c])), d[c].bsOriginal))

BurstSchedulesOne ==
  (envSteps = 0 /\ envSteps' = 1) =>
    /\ debounceTimer' /\ sinceNotify' = 0 /\ timeouts' = 1
    /\ stats'.notifs = stats.notifs + 1 /\ stats'.passes = stats.passes

\* a pass runs when the delay has elapsed; the one that follows the first
\* pass of a burst changes nothing
SecondPassIdle ==
  (stats'.passes = stats.passes + 1) =>
    /\ sinceNotify >= DebounceMs
    /\ (envSteps = 1 /\ stats.passes >= 1) => dom' = dom

Selectors == {"d2l-my-courses", "div", "d2l-enrollment-card", "d2l-card",
              "d2l-organization-name"}

\* the elements of a list, as a set
Range(seq) == {seq[i] : i \in 1..Len(seq)}

\* the scopes whose host element lies in scope s and gives access to them
ChildScopes(d, s) == {ShadowRootOf(d, el) : el \in Range(ElementsIn(d, s))} \ {Null}

\* the scopes S with the accessible scopes nested under them down to depth n
RECURSIVE Nested(_, _, _)
Nested(d, S, n) ==
  IF n = 0 THEN S
  ELSE Nested(d, S \cup UNION {ChildScopes(d, s) : s \in S}, n - 1)

\* root and every accessible scope nested under it at any depth
Reach(d, root) == Nested(d, {root}, Cardinality(Scopes))

\* the elements of those scopes that match the selector
Matching(d, selector, root) ==
  {el \in UNION {Range(ElementsIn(d, s)) : s \in Reach(d, root)} : el[1] = selector}

\* C13: for every starting scope and selector, queryShadowAll returns, once
\* each, exactly the matching elements of the starting scope and of the
\* accessible scopes nested under it at any depth; nothing that lies in or
\* below a closed scope is returned.
C13_WalkComplete ==
  \A root \in Scopes, selector \in Selectors :
    /\ Range(queryShadowAll(dom, selector, root)) = Matching(dom, selector, root)
    /\ Len(queryShadowAll(dom, selector, root)) = Cardinality(Matching(dom, selector, root))
    /\ \A c \in Cards :
         (dom[c].closed /\ root \in Reach(dom, Body) /\ selector # "d2l-enrollment-card") =>
           \A el \in Range(queryShadowAll(dom, selector, root)) : el[2] # c

\* a pass has walked a page with a sealed card that holds a d2l-card, and with
\* a card found three scopes below document.body
C13_Witness ==
  /\ last.op \in PassOps
  /\ \E c \in Cards : dom[c].present /\ dom[c].closed /\ dom[c].dCard
  /\ \E c \in Cards :
        /\ <<"d2l-card", c>> \in Range(queryShadowAll(dom, "d2l-card", Body))
        /\ OrgRoot(c) \in Reach(dom, Body)

\* C14: every scope has at most one subscription, however often init, the
\* attach-time scans and the notifications come across it: one if it is in
\* the observed set, none otherwise.
C14_SubscribedOnce ==
  \A s \in Scopes : subscriptions[s] = (IF s \in observedRoots THEN 1 ELSE 0)

\* the observer of the course list was notified of a card put back whose
\* scope is observed already
C14_Witness ==
  /\ last.op = "reinsert" /\ debounceTimer /\ sinceNotify = 0
  /\ EnrollRoot(last.arg[1]) \in observedRoots
  /\ subscriptions[EnrollRoot(last.arg[1])] = 1

\* C18: observeRoot(root) on a root not observed before leaves root and every
\* accessible scope nested under it at any depth observed; checked for every
\* such root of every reachable page, and where init() makes the call.
C18_AttachScan ==
  /\ \A root \in Scopes \ observedRoots :
       Reach(dom, root) \subseteq observeRoot(dom, observedRoots, root)
  /\ last.op = "initNames" => Reach(dom, Body) \subseteq observedRoots

\* init() attached to a page whose cards were rendered three scopes deep
C18_Witness ==
  /\ last.op = "initNames"
  /\ \E c \in Cards : {EnrollRoot(c), OrgRoot(c), CardRoot(c)} \subseteq observedRoots

\* the cards a step inserts while the course list is observed
Inserted(c) == ~dom[c].present /\ dom'[c].present /\ WrapRoot \in observedRoots

\* C19: on a notification of inserted nodes the watcher attaches to every
\* accessible scope root in the inserted subtrees, also below their light
\* children, and one pass is pending afterwards.
C19_AttachesNested ==
  [][\A c \in Cards :
       Inserted(c) =>
         /\ \A s \in Reach(dom', WrapRoot) :
              s \in {EnrollRoot(c), OrgRoot(c), CardRoot(c)} => s \in observedRoots'
         /\ debounceTimer' /\ sinceNotify' = 0 /\ timeouts' = 1]_vars

\* the part of C19 that holds: the scope roots of the added nodes themselves
\* and the scopes nested under those roots are attached, and one pass is
\* pending
C19_AttachesAddedRoots ==
  [][\A c \in Cards :
       Inserted(c) =>
         /\ ~dom'[c].wrapped =>
              \A s \in Reach(dom', WrapRoot) :
                s \in {EnrollRoot(c), OrgRoot(c), CardRoot(c)} => s \in observedRoots'
         /\ debounceTimer' /\ sinceNotify' = 0 /\ timeouts' = 1]_vars

\* a card wrapped in a div was inserted into the observed course list: a pass
\* is pending and the card's own scope is not observed
C19_Witness ==
  /\ last.op = "host" /\ debounceTimer /\ sinceNotify = 0 /\ timeouts = 1
  /\ WrapRoot \in observedRoots
  /\ \E c \in Cards :
        /\ dom[c].present /\ dom[c].wrapped
        /\ EnrollRoot(c) \in Reach(dom, Body) /\ EnrollRoot(c) \notin observedRoots

\* the index of the gradient on card c
GradientOf(c) == dom[c].gradient[1]

\* C15: the gradient on a card is the palette entry whose index is the
\* numeric value of the card's course id modulo the palette size, an index
\* in 0..size-1.
C15_GradientIsIdModSize ==
  \A c \in Cards :
    dom[c].gradient # NoGradient =>
      /\ GradientOf(c) \in 0..(GradientCount - 1)
      /\ GradientOf(c) = ExactGradient(extractCourseId(dom[c].href))

\* the part of C15 that holds: the index is in range and is what
\* getCardGradient gives for the card's id, whichever pass set it
C15_InRangeAndStable ==
  \A c \in Cards :
    dom[c].gradient # NoGradient =>
      /\ GradientOf(c) \in 0..(GradientCount - 1)
      /\ GradientOf(c) = getCardGradient(extractCourseId(dom[c].href))

\* a card with an id above 2^53 carries a gradient after a pass in dark mode
C15_Witness ==
  /\ last.op \in PassOps /\ isDarkMode
  /\ \E c \in Cards :
        /\ dom[c].gradient # NoGradient
        /\ ParseIntError(extractCourseId(dom[c].href)) # 0

\* a step that delivers a structural-change notification
NotifyStep == stats.on /\ stats'.notifs > stats.notifs

\* C16: a notification runs no pass itself; it leaves exactly one pass pending
\* with the full delay ahead, whether or not one was pending before; and the
\* timer runs its pass only when the full delay has passed since the most
\* recent notification.
C16_TrailingEdge ==
  [][/\ (NotifyStep /\ last'.op = "host") => stats'.passes = stats.passes
     /\ NotifyStep => debounceTimer' /\ sinceNotify' = 0 /\ timeouts' = 1
     /\ (last'.op = "timer" /\ stats'.passes > stats.passes) =>
          debounceTimer /\ sinceNotify >= DebounceMs]_vars

\* a second notification arrived less than the delay after the first, while
\* the pass of the first was pending: one pass is pending, the delay restarted
C16_Witness ==
  /\ last.op = "host" /\ stats.on /\ stats.notifs >= 2 /\ stats.close
  /\ stats.passes = 0
  /\ debounceTimer /\ sinceNotify = 0 /\ timeouts = 1

\* C17: at most one debounced pass is pending in every reachable state, and it
\* is the one debounceTimer names; a pass is one step of the engine, so no
\* other pass or handler runs inside it.
C17_OnePending ==
  /\ timeouts <= 1
  /\ debounceTimer <=> timeouts = 1

\* several notifications arrived and one pass is pending
C17_Witness ==
  /\ stats.on /\ stats.notifs >= 2 /\ debounceTimer /\ timeouts = 1

\* C20: no step removes a scope from the observed set or cancels a
\* subscription.
C20_ObservedGrows ==
  [][/\ observedRoots \subseteq observedRoots'
     /\ \A s \in Scopes : subscriptions'[s] >= subscriptions[s]]_vars

\* the dark-mode command ran on a page whose card scopes are observed
C20_Witness ==
  /\ last.op = "SET_DARK_MODE"
  /\ \E c \in Cards : {EnrollRoot(c), OrgRoot(c)} \subseteq observedRoots

\* href contains /d2l/home/ followed by a digit
HasCourseHref(href) ==
  /\ href # Null
  /\ \E i \in 1..Len(href) :
        /\ i + Len(HomePrefix) <= Len(href)
        /\ SubSeq(href, i, i + Len(HomePrefix) - 1) = HomePrefix
        /\ href[i + Len(HomePrefix)] \in Digits

\* enrollment card c has an accessible scope holding a d2l-card with a course
\* href and a d2l-organization-name that has a scope of its own
Qualifies(d, c) ==
  /\ ShadowRootOf(d, <<"d2l-enrollment-card", c>>) # Null
  /\ <<"d2l-card", c>> \in Range(ElementsIn(d, EnrollRoot(c)))
  /\ HasCourseHref(d[c].href)
  /\ <<"d2l-organization-name", c>> \in Range(ElementsIn(d, EnrollRoot(c)))
  /\ ShadowRootOf(d, <<"d2l-organization-name", c>>) # Null

\* the enrollment cards the walk from document.body matches
Matched(d) == {el[2] : el \in Range(queryShadowAll(d, "d2l-enrollment-card", Body))}

\* C21: findCourseElements returns an item for a matched card exactly when
\* the card qualifies; a pass writes nothing to a card left out.
C21_OnlyTargets ==
  /\ ItemCards(findCourseElements(dom).items) = {c \in Matched(dom) : Qualifies(dom, c)}
  /\ \A c \in Cards : \A names \in NameMaps : \A dark \in BOOLEAN :
       ~Qualifies(dom, c) =>
         /\ findCourseElements(dom).dom[c] = dom[c]
         /\ applyAllNames(dom, names, dark).dom[c] = dom[c]

\* a pass ran on a page with a target, with a card whose scope is closed or
\* whose label has no scope yet, and with a card that is no course
C21_Witness ==
  /\ last.op \in PassOps
  /\ \E c \in Cards : dom[c].present /\ Qualifies(dom, c)
  /\ \E c \in Cards : dom[c].present /\ dom[c].dCard /\ ~Qualifies(dom, c)

\* C22: a step sets the marker of a card only when the marker was unset and
\* the trimmed visible text was not empty, and sets it to that text; the
\* marker is never the empty string.
C22_FirstReadWins ==
  [][\A c \in Cards :
       /\ dom'[c].bsOriginal # <<>>
       /\ dom'[c].bsOriginal # dom[c].bsOriginal =>
            /\ dom[c].bsOriginal = Null
            /\ Trim(dom[c].text) # <<>>
            /\ dom'[c].bsOriginal = Trim(dom[c].text)]_vars

\* a pass stamped one card and left the marker of a target with empty visible
\* text unset
C22_Witness ==
  /\ last.op \in PassOps
  /\ \E c \in Cards : IsTarget(dom[c]) /\ Truthy(dom[c].bsOriginal)
  /\ \E c \in Cards : IsTarget(dom[c]) /\ Trim(dom[c].text) = <<>> /\ dom[c].bsOriginal = Null

\* a step in which applyAllNames ran
PassStep == last'.op \in PassOps

\* displayName of target c in the pass of this step: the marker is stamped
\* before it is read
PassName(c) ==
  DisplayName(Lookup(savedNames', extractCourseId(dom[c].href)), dom'[c].bsOriginal)

\* C23 as stated: no displayName, no write; otherwise the visible text and the
\* 'text' attribute change only if they differed from displayName, and after
\* the pass both equal displayName.
C23_AsStated ==
  [][PassStep =>
       \A c \in Cards : IsTarget(dom[c]) =>
         IF ~Truthy(PassName(c))
           THEN dom'[c].text = dom[c].text /\ dom'[c].attrText = dom[c].attrText
           ELSE /\ dom'[c].text # dom[c].text => dom[c].text # PassName(c)
                /\ dom'[c].attrText # dom[c].attrText => dom[c].attrText # PassName(c)
                /\ dom'[c].text = PassName(c)
                /\ dom'[c].attrText = PassName(c)]_vars

\* C23 (amended): the visible text is compared after trimming; it is written
\* only if its trimmed value differs from displayName, and after the pass it
\* is displayName, or it is untouched and its trimmed value is displayName;
\* the attribute equals displayName after the pass.
C23_GuardedWrite ==
  [][PassStep =>
       \A c \in Cards : IsTarget(dom[c]) =>
         IF ~Truthy(PassName(c))
           THEN dom'[c].text = dom[c].text /\ dom'[c].attrText = dom[c].attrText
           ELSE /\ dom'[c].text # dom[c].text => Trim(dom[c].text) # PassName(c)
                /\ dom'[c].attrText # dom[c].attrText => dom[c].attrText # PassName(c)
                /\ \/ dom'[c].text = PassName(c)
                   \/ dom'[c].text = dom[c].text /\ Trim(dom[c].text) = PassName(c)
                /\ dom'[c].attrText = PassName(c)]_vars

\* a pass showed an override on one card, left a host text with a leading
\* blank as it was on another, and skipped nothing it had a name for
C23_Witness ==
  /\ last.op \in PassOps
  /\ \E c \in Cards :
        /\ IsTarget(dom[c]) /\ Truthy(Lookup(savedNames, extractCourseId(dom[c].href)))
        /\ dom[c].text = Lookup(savedNames, extractCourseId(dom[c].href))
        /\ dom[c].attrText = dom[c].text
  /\ \E c \in Cards :
        /\ IsTarget(dom[c]) /\ dom[c].text = <<" ", "a">> /\ dom[c].attrText = <<"a">>

\* card records that differ in the visible text and the 'text' attribute only
SameButName(a, b) == [a EXCEPT !.text = b.text, !.attrText = b.attrText] = b

\* C24: the forEach of applyAllNames changes, on the page discovery hands it,
\* only the visible text and the 'text' attribute of the items; every other
\* card is as it was; the timer's pass leaves the override map alone and, with
\* dark mode off, changes nothing but the two and the marker of the items.
C24_Confined ==
  [][/\ \A names \in NameMaps \cup {savedNames} :
          \A c \in Cards :
            IF c \in ItemCards(findCourseElements(dom).items)
              THEN SameButName(findCourseElements(dom).dom[c],
                               ApplyNames(findCourseElements(dom).dom,
                                          findCourseElements(dom).items, names)[c])
              ELSE ApplyNames(findCourseElements(dom).dom,
                              findCourseElements(dom).items, names)[c] = dom[c]
     /\ last'.op = "timer" =>
          /\ savedNames' = savedNames
          /\ \A c \in Cards :
               IF IsTarget(dom[c])
                 THEN isDarkMode \/ SameButName([dom[c] EXCEPT !.bsOriginal = dom'[c].bsOriginal],
                                                 dom'[c])
                 ELSE dom'[c] = dom[c]]_vars

\* the timer's pass put an override back on one card while a card that is no
\* target was on the page
C24_Witness ==
  /\ last.op = "timer"
  /\ \E c \in Cards :
        /\ IsTarget(dom[c]) /\ Truthy(Lookup(savedNames, extractCourseId(dom[c].href)))
        /\ dom[c].text = Lookup(savedNames, extractCourseId(dom[c].href))
  /\ \E c \in Cards : dom[c].present /\ ~IsTarget(dom[c])

\* how often sheet x is in a list of adopted sheets
Adopted(sheets, x) == Cardinality({i \in 1..Len(sheets) : sheets[i] = x})

\* the sheets of a list other than the engine's
OtherSheets(sheets) == SelectSeq(sheets, LAMBDA x : x # TheSheet)

\* C25: the shared sheet is constructed at most once; every d2l-card scope has
\* adopted it at most once and keeps the sheets the host adopted; right after
\* SET_DARK_MODE{enabled: false} no located item's scope has it.
C25_NoDuplicateSheet ==
  /\ sheetsMade <= 1
  /\ bsCardSheet = "null" <=> sheetsMade = 0
  /\ \A c \in Cards :
       /\ Adopted(dom[c].sheets, TheSheet) <= 1
       /\ OtherSheets(dom[c].sheets) = HostSheets
  /\ (last.op = "SET_DARK_MODE" /\ last.arg = <<FALSE>>) =>
       \A c \in Cards : IsTarget(dom[c]) => Adopted(dom[c].sheets, TheSheet) = 0

\* a pass ran in dark mode over a card that has the shared sheet next to the
\* host's
C25_Witness ==
  /\ last.op \in PassOps /\ isDarkMode /\ sheetsMade = 1
  /\ \E c \in Cards : IsTarget(dom[c]) /\ dom[c].sheets = Append(HostSheets, TheSheet)

\* the one style element holds palette p, defaults in the slots p lacks
StyleIs(p) ==
  /\ Len(styleEl) = 1
  /\ \A k \in Slots : styleEl[1][k] = (IF k \in DOMAIN p THEN p[k] ELSE DEFAULT_THEME[k])

\* C26: there is never more than one style element with the engine's id and,
\* once init has injected it, exactly one; after APPLY_THEME its content is
\* built from the command's palette alone, after init's injection from the
\* stored palette alone, defaults filling the slots the palette lacks.
C26_SingletonStyle ==
  /\ Len(styleEl) <= 1
  /\ enginePc # "getDark" => Len(styleEl) = 1
  /\ last.op = "APPLY_THEME" => StyleIs(last.arg)
  /\ last.op = "initDark" => StyleIs(StoredTheme(storage))

\* after init, APPLY_THEME with a palette of some slots only replaced a
\* content that differed from the defaults in a slot the palette lacks
C26_Witness ==
  /\ last.op = "APPLY_THEME" /\ enginePc = "done"
  /\ ThemeKey \in DOMAIN storage
  /\ \E k \in Slots : k \notin DOMAIN last.arg /\ styleEl[1][k] = DEFAULT_THEME[k]
  /\ \E k \in Slots : k \in DOMAIN last.arg /\ styleEl[1][k] # DEFAULT_THEME[k]

\* the labels the host renders, as a stamp would read them
HostLabels == {Trim(x) : x \in HostTexts} \ {<<>>}

\* C27: the marker of a card is unset or a label the host rendered, never an
\* override the engine wrote into the visible text.
C27_MarkerIsHostText ==
  \A c \in Cards : dom[c].bsOriginal # Null => dom[c].bsOriginal \in HostLabels

\* the marker of a card is the override of its id, and the card shows it
C27_MarkerIsOverride ==
  \E c \in Cards :
    /\ IsTarget(dom[c])
    /\ dom[c].bsOriginal = Lookup(savedNames, extractCourseId(dom[c].href))
    /\ dom[c].text = dom[c].bsOriginal

C29_NotUndoneByInit ==
  [][(last.op = "APPLY_NAMES" /\ last'.op = "initNames") => savedNames' = last.arg]_vars

\* init() has finished with a map that is older than the store: the names of
\* the APPLY_NAMES handled before are gone from it
C29_Witness ==
  /\ last.op = "initNames" /\ enginePc = "done" /\ inbox = <<>>
  /\ savedNames # NumericEntries(storage)
  /\ \E id \in DOMAIN NumericEntries(storage) : id \notin DOMAIN savedNames

\* C30: the write of saveNames leaves every persisted key that is no course
\* id as it finds it, so that what the dark-mode toggle or a palette Apply
\* wrote since saveNames read the store is still there afterwards.
C30_SaveKeepsOtherKeys ==
  [][last'.op = "saveSet" =>
       \A k \in DOMAIN storage : ~IsNumericKey(k) => storage'[k] = storage[k]]_vars

\* saveNames and the toggle have both finished, every message was delivered,
\* and the persisted flag is not the one the toggle wrote and the page shows
C30_Witness ==
  /\ savePc = "idle" /\ toggle.pc = "idle" /\ inbox = <<>> /\ undelivered = {}
  /\ enginePc = "done" /\ last.op \in {"saveDone", "toggleDone"}
  /\ DarkKey \in DOMAIN storage
  /\ storage[DarkKey] # isDarkMode

\* C31: an edit with a name in it leaves pendingEdits only when the store
\* holds that name under the edit's id, also an edit typed while saveNames
\* was suspended.
C31_NoEditDropped ==
  [][\A id \in DOMAIN pendingEdits :
       (id \notin DOMAIN pendingEdits' /\ pendingEdits[id] # <<>>) =>
         Lookup(storage', id) = pendingEdits[id]]_vars

\* the part of C31 that holds: an edit that saveNames merged into its local
\* object before the write is in the store when pendingEdits is cleared
C31_MergedEditsSaved ==
  [][\A id \in DOMAIN pendingEdits :
       (id \notin DOMAIN pendingEdits' /\ pendingEdits[id] # <<>>
          /\ Lookup(allNames, id) = pendingEdits[id]) =>
         Lookup(storage', id) = pendingEdits[id]]_vars

\* saveNames has written and sent and is about to clear pendingEdits, which
\* holds a name typed after the merge that the store does not have
C31_Witness ==
  /\ savePc = "sent" /\ inbox = <<>>
  /\ \E id \in DOMAIN pendingEdits :
        /\ pendingEdits[id] # <<>>
        /\ Lookup(allNames, id) # pendingEdits[id]
        /\ Lookup(storage, id) # pendingEdits[id]

====
